---- MODULE Spec2Model ----
(***************************************************************************)
(* Othello engine with two search agents (minimax with alpha-beta, MCTS).  *)
(* The model follows src/main.py (class Othello), src/minmax.py            *)
(* (MinMaxPlayer), src/mcts.py (MCTSAgent) and src/heuristics.py.          *)
(*                                                                         *)
(* Python objects are modelled with a small heap: obj maps an object slot  *)
(* to an Othello instance (its board attribute is a reference into grid,   *)
(* and its current_player), grid maps a grid slot to an 8x8 numpy array.   *)
(* Slot Game is the live game the caller of the agents holds.              *)
(***************************************************************************)
EXTENDS Integers, Sequences, FiniteSets, TLC

N == 8

Rows == 0 .. (N - 1)
Cells == Rows \X Rows
Players == {1, -1}

\* directions list of Othello.valid_moves / Othello.apply_move, in source order
directions ==
    << <<-1, -1>>, <<-1, 0>>, <<-1, 1>>, <<0, -1>>,
       <<0, 1>>, <<1, -1>>, <<1, 0>>, <<1, 1>> >>

\* loop condition 0 <= nr < 8 and 0 <= nc < 8
InBoard(nr, nc) == nr >= 0 /\ nr < N /\ nc >= 0 /\ nc < N

(***************************************************************************)
(* A board is the 8x8 numpy array self.board: a tuple of 8 rows of 8 cell  *)
(* values, 0 = empty, 1 = black, -1 = white.  Python indexes from 0.       *)
(***************************************************************************)
At(b, r, c) == b[r + 1][c + 1]

\* self.board[r, c] = v
SetCell(b, x, v) == [b EXCEPT ![x[1] + 1][x[2] + 1] = v]

\* np.zeros((8, 8), dtype=int)
Row(v) == <<v, v, v, v, v, v, v, v>>
FullBoard(v) ==
    <<Row(v), Row(v), Row(v), Row(v), Row(v), Row(v), Row(v), Row(v)>>
EmptyBoard == FullBoard(0)

\* board after Othello.__init__ with isopeningRandom = False
OpeningBoard ==
    SetCell(SetCell(SetCell(SetCell(EmptyBoard,
        <<3, 3>>, -1), <<4, 4>>, -1), <<3, 4>>, 1), <<4, 3>>, 1)

(***************************************************************************)
(* Othello.valid_moves: the inner while loop, started next to a disk of    *)
(* player and walking in direction (dr, dc).                               *)
(***************************************************************************)
\* variant of ScanRay that accepts an empty cell right next to the disk
RECURSIVE ScanRayNoRun(_, _, _, _, _, _, _)
ScanRayNoRun(b, player, nr, nc, dr, dc, found_opponent) ==
    IF ~InBoard(nr, nc) THEN {}
    ELSE IF At(b, nr, nc) = -player
         THEN ScanRayNoRun(b, player, nr + dr, nc + dc, dr, dc, TRUE)
    ELSE IF At(b, nr, nc) = 0 THEN {<<nr, nc>>}
    ELSE {}

RECURSIVE ScanRay(_, _, _, _, _, _, _)
ScanRay(b, player, nr, nc, dr, dc, found_opponent) ==
    IF ~InBoard(nr, nc) THEN {}
    ELSE IF At(b, nr, nc) = -player
         THEN ScanRay(b, player, nr + dr, nc + dc, dr, dc, TRUE)
    ELSE IF At(b, nr, nc) = 0 /\ found_opponent THEN {<<nr, nc>>}
    ELSE {}

BoardValidMoves(b, player) ==
    UNION { UNION { ScanRay(b, player, x[1] + directions[i][1],
                            x[2] + directions[i][2],
                            directions[i][1], directions[i][2], FALSE)
                    : i \in 1 .. Len(directions) }
            : x \in {y \in Cells : At(b, y[1], y[2]) = player} }

(***************************************************************************)
(* Othello.apply_move, lines 82-95: one direction of the flipping loop.    *)
(* pieces_to_flip is the list collected so far; the result is the board    *)
(* after this direction.                                                   *)
(***************************************************************************)
\* for flip_r, flip_c in pieces_to_flip: self.board[flip_r, flip_c] = player
RECURSIVE FlipAll(_, _, _, _)
FlipAll(b, player, pieces_to_flip, k) ==
    IF k > Len(pieces_to_flip) THEN b
    ELSE FlipAll(SetCell(b, pieces_to_flip[k], player), player,
                 pieces_to_flip, k + 1)

\* variant of FlipRay that also flips a run ending at the board edge
RECURSIVE FlipRayOpenEnd(_, _, _, _, _, _, _)
FlipRayOpenEnd(b, player, nr, nc, dr, dc, pieces_to_flip) ==
    IF ~InBoard(nr, nc) THEN FlipAll(b, player, pieces_to_flip, 1)
    ELSE IF At(b, nr, nc) = -player
         THEN FlipRayOpenEnd(b, player, nr + dr, nc + dc, dr, dc,
                             Append(pieces_to_flip, <<nr, nc>>))
    ELSE IF At(b, nr, nc) = player
         THEN FlipAll(b, player, pieces_to_flip, 1)
    ELSE b

\* variant of FlipRay that leaves a closed run unflipped
RECURSIVE FlipRayNever(_, _, _, _, _, _, _)
FlipRayNever(b, player, nr, nc, dr, dc, pieces_to_flip) ==
    IF ~InBoard(nr, nc) THEN b
    ELSE IF At(b, nr, nc) = -player
         THEN FlipRayNever(b, player, nr + dr, nc + dc, dr, dc,
                           Append(pieces_to_flip, <<nr, nc>>))
    ELSE b

RECURSIVE FlipRay(_, _, _, _, _, _, _)
FlipRay(b, player, nr, nc, dr, dc, pieces_to_flip) ==
    IF ~InBoard(nr, nc) THEN b
    ELSE IF At(b, nr, nc) = -player
         THEN FlipRay(b, player, nr + dr, nc + dc, dr, dc,
                      Append(pieces_to_flip, <<nr, nc>>))
    ELSE IF At(b, nr, nc) = player
         THEN FlipAll(b, player, pieces_to_flip, 1)
    ELSE b

RECURSIVE FlipDirections(_, _, _, _)
FlipDirections(b, move, player, i) ==
    IF i > Len(directions) THEN b
    ELSE FlipDirections(
            FlipRay(b, player, move[1] + directions[i][1],
                    move[2] + directions[i][2],
                    directions[i][1], directions[i][2], <<>>),
            move, player, i + 1)

\* variant of apply_move that places the disk before testing the move
BoardApplyMovePlaceFirst(b, move, player) ==
    IF move \notin BoardValidMoves(b, player)
    THEN [result |-> FALSE, board |-> SetCell(b, move, player)]
    ELSE [result |-> TRUE,
          board |-> FlipDirections(SetCell(b, move, player), move, player, 1)]

\* Othello.apply_move on the grid: [result, board]
BoardApplyMove(b, move, player) ==
    IF move \notin BoardValidMoves(b, player)
    THEN [result |-> FALSE, board |-> b]
    ELSE [result |-> TRUE,
          board |-> FlipDirections(SetCell(b, move, player), move, player, 1)]

\* variant of is_game_over that ends the game when one side has no move
BoardIsGameOverEither(b) ==
    ~(BoardValidMoves(b, 1) # {} /\ BoardValidMoves(b, -1) # {})

\* Othello.is_game_over on the grid
BoardIsGameOver(b) ==
    ~(BoardValidMoves(b, 1) # {} \/ BoardValidMoves(b, -1) # {})

\* np.sum(self.board == v)
Count(b, v) == Cardinality({x \in Cells : At(b, x[1], x[2]) = v})


(***************************************************************************)
(* The heap.  mem = [obj, grid]; obj[s] = [board |-> grid slot,            *)
(* current_player |-> 1 or -1].                                            *)
(***************************************************************************)
Game == 0

Last(seq) == seq[Len(seq)]
Range(f) == {f[i] : i \in DOMAIN f}

\* f[k] = v on a dictionary or a heap
Put(f, k, v) == (k :> v) @@ f

BoardOf(mem, self) == mem.grid[mem.obj[self].board]

\* Othello.valid_moves(self, player)
valid_moves(mem, self, player) == BoardValidMoves(BoardOf(mem, self), player)

\* Othello.apply_move(self, move, player): [result, mem]
apply_move(mem, self, move, player) ==
    LET r == BoardApplyMove(BoardOf(mem, self), move, player)
    IN  [result |-> r.result,
         mem |-> [mem EXCEPT !.grid[mem.obj[self].board] = r.board]]

\* Othello.is_game_over(self)
is_game_over(mem, self) == BoardIsGameOver(BoardOf(mem, self))

\* a copy whose board is the caller's array (new_game.board = self.board)
copyShared(mem, self, new) ==
    [obj |-> Put(mem.obj, new,
                 [board |-> mem.obj[self].board,
                  current_player |-> mem.obj[self].current_player]),
     grid |-> mem.grid]

\* Othello.copy(self): a new Othello object in slot new with its own grid
copy(mem, self, new) ==
    [obj |-> Put(mem.obj, new,
                 [board |-> new,
                  current_player |-> mem.obj[self].current_player]),
     grid |-> Put(mem.grid, new, BoardOf(mem, self))]

\* self.current_player *= -1
FlipPlayer(mem, self) ==
    [mem EXCEPT !.obj[self].current_player = -mem.obj[self].current_player]

(***************************************************************************)
(* Heuristic scores.  The heuristics return quotients of integers; a score *)
(* is kept as the exact fraction num/den with den > 0, float('inf') as     *)
(* 1/0 and float('-inf') as -1/0.  Scores are only compared.               *)
(***************************************************************************)
Frac(n, d) == [num |-> n, den |-> d]
PosInf == Frac(1, 0)
NegInf == Frac(-1, 0)

\* a < b
Lt(a, b) ==
    IF a.den = 0 /\ b.den = 0 THEN a.num < b.num
    ELSE a.num * b.den < b.num * a.den

\* a >= b, a <= b, a == b
Ge(a, b) == ~Lt(a, b)
Le(a, b) == ~Lt(b, a)
SameScore(a, b) == ~Lt(a, b) /\ ~Lt(b, a)

\* Python max(a, b) and min(a, b): the first argument wins a tie
MaxScore(a, b) == IF Lt(a, b) THEN b ELSE a
MinScore(a, b) == IF Lt(b, a) THEN b ELSE a

\* Python None (a move is a pair, so the empty tuple is free)
None == <<>>

\* the player's share of the disks instead of the difference
coin_parity_heuristicShare(mem, game, player) ==
    LET player_count == Count(BoardOf(mem, game), player)
        opponent_count == Count(BoardOf(mem, game), -player)
    IN  IF player_count + opponent_count = 0 THEN Frac(0, 1)
        ELSE Frac(100 * player_count, player_count + opponent_count)

\* coin_parity_heuristic(game, player)
coin_parity_heuristic(mem, game, player) ==
    LET player_count == Count(BoardOf(mem, game), player)
        opponent_count == Count(BoardOf(mem, game), -player)
    IN  IF player_count + opponent_count = 0 THEN Frac(0, 1)
        ELSE Frac(100 * (player_count - opponent_count),
                  player_count + opponent_count)

corners == {<<0, 0>>, <<0, N - 1>>, <<N - 1, 0>>, <<N - 1, N - 1>>}

\* corner_heuristic(game, player)
corner_heuristic(mem, game, player) ==
    LET board == BoardOf(mem, game)
        player_corners ==
            Cardinality({x \in corners : At(board, x[1], x[2]) = player})
        opponent_corners ==
            Cardinality({x \in corners : At(board, x[1], x[2]) = -player})
        player_potential_corners ==
            Cardinality(valid_moves(mem, game, player) \cap corners)
        opponent_potential_corners ==
            Cardinality(valid_moves(mem, game, -player) \cap corners)
        player_score == 2 * player_corners + 1 * player_potential_corners
        opponent_score == 2 * opponent_corners + 1 * opponent_potential_corners
    IN  IF player_score + opponent_score # 0
        THEN Frac(100 * (player_score - opponent_score),
                  player_score + opponent_score)
        ELSE Frac(0, 1)

(***************************************************************************)
(* src/utils.py: the board scans behind the mobility and stability         *)
(* heuristics.  They take the array itself, not the game.                  *)
(***************************************************************************)
\* a scan that steps over one opponent disk only
SkipOpponentOnce(board, opponent, nr, nc, dr, dc) ==
    IF InBoard(nr, nc) /\ At(board, nr, nc) = opponent
    THEN <<nr + dr, nc + dc>>
    ELSE <<nr, nc>>

\* lines 25-27: the cell at which the run of opponent disks starting at
\* (nr, nc) ends
RECURSIVE SkipOpponent(_, _, _, _, _, _)
SkipOpponent(board, opponent, nr, nc, dr, dc) ==
    IF InBoard(nr, nc) /\ At(board, nr, nc) = opponent
    THEN SkipOpponent(board, opponent, nr + dr, nc + dc, dr, dc)
    ELSE <<nr, nc>>

\* find_valid_moves(board, player): scans outward from the empty cells
find_valid_moves(board, player) ==
    {x \in Cells :
        /\ At(board, x[1], x[2]) = 0
        /\ \E i \in DOMAIN directions :
            LET dr == directions[i][1]
                dc == directions[i][2]
                nr == x[1] + dr
                nc == x[2] + dc
            IN  /\ InBoard(nr, nc)
                /\ At(board, nr, nc) = -player
                /\ LET end == SkipOpponent(board, -player, nr, nc, dr, dc)
                   IN  /\ InBoard(end[1], end[2])
                       /\ At(board, end[1], end[2]) = player}

\* find_empty_neighbors(board, player)
find_empty_neighbors(board, player) ==
    UNION { { <<x[1] + directions[i][1], x[2] + directions[i][2]>>
                : i \in {j \in DOMAIN directions :
                            /\ InBoard(x[1] + directions[j][1],
                                       x[2] + directions[j][2])
                            /\ At(board, x[1] + directions[j][1],
                                  x[2] + directions[j][2]) = 0} }
            : x \in {y \in Cells : At(board, y[1], y[2]) = player} }

\* find_stable_disks(board, player): the disks with no empty neighbour
find_stable_disks(board, player) ==
    Cardinality({x \in Cells :
        /\ At(board, x[1], x[2]) = player
        /\ \A i \in DOMAIN directions :
            ~(/\ InBoard(x[1] + directions[i][1], x[2] + directions[i][2])
              /\ At(board, x[1] + directions[i][1],
                    x[2] + directions[i][2]) = 0)})

\* find_unstable_disks(board, player, opponent_moves): one count for every
\* move and direction with a disk of player next to the move
find_unstable_disks(board, player, opponent_moves) ==
    Cardinality({p \in opponent_moves \X DOMAIN directions :
        /\ InBoard(p[1][1] + directions[p[2]][1],
                   p[1][2] + directions[p[2]][2])
        /\ At(board, p[1][1] + directions[p[2]][1],
              p[1][2] + directions[p[2]][2]) = player})

(***************************************************************************)
(* The remaining heuristics.  A true division a / b is Frac(a, b); with    *)
(* b = 0 Python raises ZeroDivisionError and the fraction has den = 0,     *)
(* which every operation below carries into its result.                    *)
(***************************************************************************)
\* a + b and a / k for an integer k
AddScore(a, b) == Frac(a.num * b.den + b.num * a.den, a.den * b.den)
ScaleScore(k, a) == Frac(k * a.num, a.den)
DivScore(a, k) == Frac(a.num, a.den * k)

\* lines 34-37 of mobility_heuristic
actual_mobility_heuristic(board, player) ==
    LET player_moves_a == Cardinality(find_valid_moves(board, player))
        opponent_moves_a == Cardinality(find_valid_moves(board, -player))
    IN  IF player_moves_a + opponent_moves_a # 0
        THEN Frac(100 * (player_moves_a - opponent_moves_a),
                  player_moves_a + opponent_moves_a)
        ELSE Frac(0, 1)

\* lines 39-42 of mobility_heuristic
potential_mobility_heuristic(board, player) ==
    LET player_moves_p == Cardinality(find_empty_neighbors(board, player))
        opponent_moves_p == Cardinality(find_empty_neighbors(board, -player))
    IN  IF player_moves_p + opponent_moves_p # 0
        THEN Frac(100 * (player_moves_p - opponent_moves_p),
                  player_moves_p + opponent_moves_p)
        ELSE Frac(0, 1)

\* the actual mobility divided without the test of line 34
mobility_heuristicUnguarded(mem, game, player) ==
    LET board == BoardOf(mem, game)
        player_moves_a == Cardinality(find_valid_moves(board, player))
        opponent_moves_a == Cardinality(find_valid_moves(board, -player))
    IN  DivScore(AddScore(Frac(100 * (player_moves_a - opponent_moves_a),
                               player_moves_a + opponent_moves_a),
                          potential_mobility_heuristic(board, player)),
                 2)

\* mobility_heuristic(game, player)
mobility_heuristic(mem, game, player) ==
    DivScore(AddScore(actual_mobility_heuristic(BoardOf(mem, game), player),
                      potential_mobility_heuristic(BoardOf(mem, game), player)),
             2)

\* lines 124-128 of stability_heuristic
stable_diff(mem, game, player) ==
    LET board == BoardOf(mem, game)
        player_stable == find_stable_disks(board, player)
        opponent_stable == find_stable_disks(board, -player)
    IN  IF player_stable + opponent_stable # 0
        THEN Frac(100 * (player_stable - opponent_stable),
                  player_stable + opponent_stable)
        ELSE Frac(0, 1)

\* lines 117-118 and 130-134 of stability_heuristic
unstable_diff(mem, game, player) ==
    LET board == BoardOf(mem, game)
        player_unstable ==
            find_unstable_disks(board, player, valid_moves(mem, game, -player))
        opponent_unstable ==
            find_unstable_disks(board, -player, valid_moves(mem, game, player))
    IN  IF player_unstable + opponent_unstable # 0
        THEN Frac(100 * (opponent_unstable - player_unstable),
                  player_unstable + opponent_unstable)
        ELSE Frac(0, 1)

STABLE_WEIGHT == 2
UNSTABLE_WEIGHT == 1

\* stability_heuristic(game, player)
stability_heuristic(mem, game, player) ==
    DivScore(AddScore(ScaleScore(STABLE_WEIGHT, stable_diff(mem, game, player)),
                      ScaleScore(UNSTABLE_WEIGHT,
                                 unstable_diff(mem, game, player))),
             STABLE_WEIGHT + UNSTABLE_WEIGHT)

(***************************************************************************)
(* hybrid_heuristic.  Its disk-parity weight (1 + disk_nb / 64) ** 6 and   *)
(* the weighted mean are floating point; the model keeps the weight as a   *)
(* base and an exponent and the mean as its terms, and decides from their  *)
(* signs whether the divisor of line 189 is zero.                          *)
(***************************************************************************)
mobility_weight == 20
corner_weight == 50
stability_weight == 40

\* line 181
disk_parity_weight(mem, game, player) ==
    LET disk_nb == Count(BoardOf(mem, game), player)
                    + Count(BoardOf(mem, game), -player)
    IN  [base |-> Frac(N * N + disk_nb, N * N), exponent |-> 6]

\* the sign of base ** exponent
PowerSign(w) ==
    IF w.base.num = 0 THEN 0
    ELSE IF w.exponent % 2 = 0 \/ w.base.num * w.base.den > 0 THEN 1
    ELSE -1

\* hybrid_heuristic(game, player): the weights and terms of the weighted
\* mean; den is 0 when a term has den = 0 or the divisor of line 189 (the
\* power plus 110) is zero, and 1 otherwise
hybrid_heuristic(mem, game, player) ==
    LET disk_parity_heuristic_value == coin_parity_heuristic(mem, game, player)
        mobility_heuristic_value == mobility_heuristic(mem, game, player)
        corner_heuristic_value == corner_heuristic(mem, game, player)
        stability_heuristic_value == stability_heuristic(mem, game, player)
        weight == disk_parity_weight(mem, game, player)
        fixed == mobility_weight + corner_weight + stability_weight
        divisor_is_zero ==
            \/ weight.base.den = 0
            \/ PowerSign(weight) = 0 /\ fixed = 0
            \/ PowerSign(weight) * fixed < 0
        defined ==
            /\ disk_parity_heuristic_value.den # 0
            /\ mobility_heuristic_value.den # 0
            /\ corner_heuristic_value.den # 0
            /\ stability_heuristic_value.den # 0
            /\ ~divisor_is_zero
    IN  [den |-> IF defined THEN 1 ELSE 0,
         weights |-> <<weight, mobility_weight, corner_weight,
                       stability_weight>>,
         terms |-> <<disk_parity_heuristic_value, mobility_heuristic_value,
                     corner_heuristic_value, stability_heuristic_value>>]

\* the five heuristics of src/heuristics.py
AllHeuristics == {"coin_parity", "mobility", "corner", "stability", "hybrid"}

\* heuristic(game, player) for one of the five
Evaluate(h, mem, game, player) ==
    IF h = "coin_parity" THEN coin_parity_heuristic(mem, game, player)
    ELSE IF h = "mobility" THEN mobility_heuristic(mem, game, player)
    ELSE IF h = "corner" THEN corner_heuristic(mem, game, player)
    ELSE IF h = "stability" THEN stability_heuristic(mem, game, player)
    ELSE hybrid_heuristic(mem, game, player)

\* the heuristics a MinMaxPlayer is configured with
Heuristics == {"coin_parity", "corner"}

\* self.heuristic_function(game, self.color)
heuristic_function(h, mem, game, color) ==
    IF h = "coin_parity" THEN coin_parity_heuristic(mem, game, color)
    ELSE corner_heuristic(mem, game, color)

(***************************************************************************)
(* list(a_set): the order in which Python enumerates a set of moves is     *)
(* fixed by the interpreter, not by the program; two opposite orders are   *)
(* modelled, row-major ascending and descending.                           *)
(***************************************************************************)
Orders == {"asc", "desc"}

CellsAscending == [k \in 1 .. N * N |-> <<(k - 1) \div N, (k - 1) % N>>]
CellsDescending == [k \in 1 .. N * N |-> <<(N * N - k) \div N, (N * N - k) % N>>]

MoveList(moves, order) ==
    LET Member(x) == x \in moves
    IN  SelectSeq(IF order = "asc" THEN CellsAscending ELSE CellsDescending,
                  Member)

(***************************************************************************)
(* MinMaxPlayer.  cfg = [color, heuristic, depth, order].  slot is the     *)
(* first heap slot not in use: new_game of this call goes there, the       *)
(* recursive call allocates above it.                                     *)
(***************************************************************************)
RECURSIVE minimax(_, _, _, _, _, _, _, _)
RECURSIVE MaxLoop(_, _, _, _, _, _, _, _, _, _, _)
RECURSIVE MinLoop(_, _, _, _, _, _, _, _, _, _, _)

\* the maximizing loop with a move taken as candidate only above alpha
MaxLoopAboveAlpha(cfg, mem, game, depth, alpha, beta, moves, i, max_eval, best_move, slot) ==
    IF i > Len(moves)
    THEN [score |-> max_eval, move |-> best_move, mem |-> mem, breaks |-> 0]
    ELSE LET new_game == copy(mem, game, slot)
             applied == apply_move(new_game, slot, moves[i], cfg.color)
             r == minimax(cfg, applied.mem, slot, depth - 1, alpha, beta,
                          FALSE, slot + 1)
             better == Lt(alpha, r.score) /\ Lt(max_eval, r.score)
             new_eval == IF better THEN r.score ELSE max_eval
             new_best == IF better THEN moves[i] ELSE best_move
             new_alpha == MaxScore(alpha, r.score)
         IN  IF Ge(new_alpha, beta)
             THEN [score |-> new_eval, move |-> new_best, mem |-> r.mem,
                   breaks |-> r.breaks + 1]
             ELSE LET rest == MaxLoop(cfg, r.mem, game, depth, new_alpha,
                                      beta, moves, i + 1, new_eval, new_best,
                                      slot)
                  IN  [rest EXCEPT !.breaks = @ + r.breaks]

\* the minimizing loop leaving at the first move that lowers beta
MinLoopBreaksAtOnce(cfg, mem, game, depth, alpha, beta, moves, i, min_eval, best_move, slot) ==
    IF i > Len(moves)
    THEN [score |-> min_eval, move |-> best_move, mem |-> mem, breaks |-> 0]
    ELSE LET new_game == copy(mem, game, slot)
             applied == apply_move(new_game, slot, moves[i], -cfg.color)
             r == minimax(cfg, applied.mem, slot, depth - 1, alpha, beta,
                          TRUE, slot + 1)
             better == Lt(r.score, min_eval)
             new_eval == IF better THEN r.score ELSE min_eval
             new_best == IF better THEN moves[i] ELSE best_move
             new_beta == MinScore(beta, r.score)
         IN  IF Le(new_beta, r.score)
             THEN [score |-> new_eval, move |-> new_best, mem |-> r.mem,
                   breaks |-> r.breaks + 1]
             ELSE LET rest == MinLoop(cfg, r.mem, game, depth, alpha,
                                      new_beta, moves, i + 1, new_eval,
                                      new_best, slot)
                  IN  [rest EXCEPT !.breaks = @ + r.breaks]

\* lines 26-40: the loop of the maximizing branch from move i on.  breaks
\* counts the break statements executed in the call and below it.
MaxLoop(cfg, mem, game, depth, alpha, beta, moves, i, max_eval, best_move, slot) ==
    IF i > Len(moves)
    THEN [score |-> max_eval, move |-> best_move, mem |-> mem, breaks |-> 0]
    ELSE LET new_game == copy(mem, game, slot)
             applied == apply_move(new_game, slot, moves[i], cfg.color)
             r == minimax(cfg, applied.mem, slot, depth - 1, alpha, beta,
                          FALSE, slot + 1)
             better == Lt(max_eval, r.score)
             new_eval == IF better THEN r.score ELSE max_eval
             new_best == IF better THEN moves[i] ELSE best_move
             new_alpha == MaxScore(alpha, r.score)
         IN  IF Ge(new_alpha, beta)
             THEN [score |-> new_eval, move |-> new_best, mem |-> r.mem,
                   breaks |-> r.breaks + 1]
             ELSE LET rest == MaxLoop(cfg, r.mem, game, depth, new_alpha,
                                      beta, moves, i + 1, new_eval, new_best,
                                      slot)
                  IN  [rest EXCEPT !.breaks = @ + r.breaks]

\* lines 43-57: the loop of the minimizing branch from move i on
MinLoop(cfg, mem, game, depth, alpha, beta, moves, i, min_eval, best_move, slot) ==
    IF i > Len(moves)
    THEN [score |-> min_eval, move |-> best_move, mem |-> mem, breaks |-> 0]
    ELSE LET new_game == copy(mem, game, slot)
             applied == apply_move(new_game, slot, moves[i], -cfg.color)
             r == minimax(cfg, applied.mem, slot, depth - 1, alpha, beta,
                          TRUE, slot + 1)
             better == Lt(r.score, min_eval)
             new_eval == IF better THEN r.score ELSE min_eval
             new_best == IF better THEN moves[i] ELSE best_move
             new_beta == MinScore(beta, r.score)
         IN  IF Le(new_beta, alpha)
             THEN [score |-> new_eval, move |-> new_best, mem |-> r.mem,
                   breaks |-> r.breaks + 1]
             ELSE LET rest == MinLoop(cfg, r.mem, game, depth, alpha,
                                      new_beta, moves, i + 1, new_eval,
                                      new_best, slot)
                  IN  [rest EXCEPT !.breaks = @ + r.breaks]

\* a leaf whose value is clamped to the window (alpha, beta)
minimaxClampsLeaf(cfg, mem, game, depth, alpha, beta, maximizing, slot) ==
    IF depth = 0 \/ is_game_over(mem, game)
    THEN [score |-> MaxScore(alpha, MinScore(beta,
                        heuristic_function(cfg.heuristic, mem, game,
                                           cfg.color))),
          move |-> None, mem |-> mem, breaks |-> 0]
    ELSE LET moves ==
                MoveList(valid_moves(mem, game,
                                     IF maximizing THEN cfg.color
                                     ELSE -cfg.color), cfg.order)
         IN  IF Len(moves) = 0
             THEN LET r == minimax(cfg, mem, game, depth - 1, alpha, beta,
                                   ~maximizing, slot)
                  IN  [score |-> r.score, move |-> None, mem |-> r.mem,
                       breaks |-> r.breaks]
             ELSE IF maximizing
                  THEN MaxLoop(cfg, mem, game, depth, alpha, beta, moves, 1,
                               NegInf, None, slot)
                  ELSE MinLoop(cfg, mem, game, depth, alpha, beta, moves, 1,
                               PosInf, None, slot)

\* a side without a move is asked again at the next depth
minimaxPassKeepsFlag(cfg, mem, game, depth, alpha, beta, maximizing, slot) ==
    IF depth = 0 \/ is_game_over(mem, game)
    THEN [score |-> heuristic_function(cfg.heuristic, mem, game, cfg.color),
          move |-> None, mem |-> mem, breaks |-> 0]
    ELSE LET moves ==
                MoveList(valid_moves(mem, game,
                                     IF maximizing THEN cfg.color
                                     ELSE -cfg.color), cfg.order)
         IN  IF Len(moves) = 0
             THEN LET r == minimax(cfg, mem, game, depth - 1, alpha, beta,
                                   maximizing, slot)
                  IN  [score |-> r.score, move |-> None, mem |-> r.mem,
                       breaks |-> r.breaks]
             ELSE IF maximizing
                  THEN MaxLoop(cfg, mem, game, depth, alpha, beta, moves, 1,
                               NegInf, None, slot)
                  ELSE MinLoop(cfg, mem, game, depth, alpha, beta, moves, 1,
                               PosInf, None, slot)

\* MinMaxPlayer.minimax: [score, move, mem, breaks]
minimax(cfg, mem, game, depth, alpha, beta, maximizing, slot) ==
    IF depth = 0 \/ is_game_over(mem, game)
    THEN [score |-> heuristic_function(cfg.heuristic, mem, game, cfg.color),
          move |-> None, mem |-> mem, breaks |-> 0]
    ELSE LET moves ==
                MoveList(valid_moves(mem, game,
                                     IF maximizing THEN cfg.color
                                     ELSE -cfg.color), cfg.order)
         IN  IF Len(moves) = 0
             THEN LET r == minimax(cfg, mem, game, depth - 1, alpha, beta,
                                   ~maximizing, slot)
                  IN  [score |-> r.score, move |-> None, mem |-> r.mem,
                       breaks |-> r.breaks]
             ELSE IF maximizing
                  THEN MaxLoop(cfg, mem, game, depth, alpha, beta, moves, 1,
                               NegInf, None, slot)
                  ELSE MinLoop(cfg, mem, game, depth, alpha, beta, moves, 1,
                               PosInf, None, slot)

\* MinMaxPlayer.get_move: [move, mem]
minmax_get_move(cfg, mem, game, slot) ==
    LET r == minimax(cfg, mem, game, cfg.depth, NegInf, PosInf, TRUE, slot)
    IN  [move |-> r.move, mem |-> r.mem]

\* the objects of mem that are still referenced once a call has returned
Collect(mem, live) ==
    [obj |-> [s \in live |-> mem.obj[s]],
     grid |-> [s \in {mem.obj[t].board : t \in live} |-> mem.grid[s]]]

(***************************************************************************)
(* MCTSAgent.  The tree is the pair of dictionaries of the agent:          *)
(* children, a sequence of [key, kids] entries in insertion order, and     *)
(* node_info, a function from keys to [visits, wins, untried_moves].  A    *)
(* key is a board.  wins counts half points (a rollout yields 0, 1 or 2).  *)
(* untried_moves is NoList (Python None) or List(a set of moves); the      *)
(* list is only drawn from at random, so its order is not kept.            *)
(***************************************************************************)
NoList == [is_none |-> TRUE, items |-> {}]
List(items) == [is_none |-> FALSE, items |-> items]

\* the first heap slot not in use
Fresh(mem) == 1 + CHOOSE s \in DOMAIN mem.obj : \A t \in DOMAIN mem.obj : t <= s

\* get_node_key(game_state): the board as a tuple of tuples
get_node_key(mem, state) == BoardOf(mem, state)

\* key in self.children
HasKey(children, key) == \E i \in DOMAIN children : children[i].key = key

KeyIndex(children, key) == CHOOSE i \in DOMAIN children : children[i].key = key

\* self.children[key], read: a defaultdict inserts the missing key
Touch(children, key) ==
    IF HasKey(children, key) THEN children
    ELSE Append(children, [key |-> key, kids |-> <<>>])

Kids(children, key) ==
    IF HasKey(children, key) THEN children[KeyIndex(children, key)].kids
    ELSE <<>>

\* self.children[key].append(kid)
AddKid(children, key, kid) ==
    LET touched == Touch(children, key)
    IN  [touched EXCEPT ![KeyIndex(touched, key)].kids = Append(@, kid)]

\* game_state.copy() into the first free slot: [mem, state]
NewCopy(mem, state) ==
    [mem |-> copy(mem, state, Fresh(mem)), state |-> Fresh(mem)]

\* lines 79-81 (108-110, 201-203): new_state = game_state.copy();
\* new_state.apply_move(move, new_state.current_player);
\* new_state.current_player *= -1
Successor(mem, state, move) ==
    LET c == NewCopy(mem, state)
        applied == apply_move(c.mem, c.state, move,
                              c.mem.obj[c.state].current_player)
    IN  [mem |-> FlipPlayer(applied.mem, c.state), state |-> c.state]

RECURSIVE selection(_, _, _)
RECURSIVE FindChild(_, _, _, _, _, _)

\* lines 78-85: the loop looking for the move that leads to best_child_key,
\* from move i on; the state it leaves is selected from in turn
FindChild(agent, mem, state, moves, i, best_child_key) ==
    IF i > Len(moves)
    THEN LET c == NewCopy(mem, state)
         IN  {[agent |-> agent, mem |-> c.mem, state |-> c.state]}
    ELSE LET new_state == Successor(mem, state, moves[i])
         IN  IF get_node_key(new_state.mem, new_state.state) = best_child_key
             THEN selection(agent, new_state.mem, new_state.state)
             ELSE FindChild(agent, new_state.mem, state, moves, i + 1,
                            best_child_key)

\* MCTSAgent.selection: the set of [agent, mem, state] it can return.  The
\* UCB1 values are floating point (log, sqrt); the child max() picks among
\* several is left open, a single child is the child picked.
selection(agent, mem, state) ==
    LET node_key == get_node_key(mem, state)
    IN  IF node_key \notin DOMAIN agent.node_info
        THEN LET c == NewCopy(mem, state)
             IN  {[agent |-> agent, mem |-> c.mem, state |-> c.state]}
        ELSE LET read == [agent EXCEPT !.children = Touch(@, node_key)]
             IN  IF Kids(read.children, node_key) = <<>>
                 THEN LET c == NewCopy(mem, state)
                      IN  {[agent |-> read, mem |-> c.mem, state |-> c.state]}
                 ELSE UNION {
                        FindChild(read, mem, state,
                                  MoveList(valid_moves(mem, state,
                                        mem.obj[state].current_player),
                                        agent.order),
                                  1, best_child_key)
                        : best_child_key \in
                                Range(Kids(read.children, node_key)) }

\* lines 94-97: the entry of node_key, initialized if it has none
Entry(agent, mem, state) ==
    LET node_key == get_node_key(mem, state)
    IN  IF node_key \in DOMAIN agent.node_info
        THEN agent.node_info[node_key]
        ELSE [untried_moves |->
                List(valid_moves(mem, state, mem.obj[state].current_player)),
              visits |-> 0, wins |-> 0]

\* lines 104-119 for the move random.choice drew
Expand(agent, mem, state, move) ==
    LET node_key == get_node_key(mem, state)
        entry == Entry(agent, mem, state)
        new_state == Successor(mem, state, move)
        new_key == get_node_key(new_state.mem, new_state.state)
        removed == [entry EXCEPT !.untried_moves =
                                    List(entry.untried_moves.items \ {move})]
    IN  [agent |->
            [agent EXCEPT
                !.children = AddKid(@, node_key, new_key),
                !.node_info =
                    Put(Put(@, node_key, removed), new_key,
                        [visits |-> 0, wins |-> 0,
                         untried_moves |-> NoList])],
         mem |-> new_state.mem, state |-> new_state.state]

\* MCTSAgent.expansion: the set of [agent, mem, state] it can return
expansion(agent, mem, state) ==
    LET node_key == get_node_key(mem, state)
        entry == Entry(agent, mem, state)
    IN  IF entry.untried_moves.is_none \/ entry.untried_moves.items = {}
        THEN LET c == NewCopy(mem, state)
             IN  {[agent |-> [agent EXCEPT !.node_info =
                                            Put(@, node_key, entry)],
                   mem |-> c.mem, state |-> c.state]}
        ELSE {Expand(agent, mem, state, move)
                : move \in entry.untried_moves.items}

\* lines 128-133: the states the rollout loop can end in
RECURSIVE Rollout(_, _)
Rollout(mem, current_state) ==
    IF is_game_over(mem, current_state) THEN {mem}
    ELSE LET player == mem.obj[current_state].current_player
             possible_moves == valid_moves(mem, current_state, player)
         IN  IF possible_moves = {}
             THEN Rollout(FlipPlayer(mem, current_state), current_state)
             ELSE UNION {
                    Rollout(FlipPlayer(apply_move(mem, current_state, move,
                                                  player).mem,
                                       current_state), current_state)
                    : move \in possible_moves }

\* the result of a rollout seen from Black whoever started it
RolloutResultOfBlack(board, first_player) ==
    IF Count(board, 1) > Count(board, -1) THEN 2
    ELSE IF Count(board, 1) = Count(board, -1) THEN 1 ELSE 0

\* lines 136-143: 1, 0.5 or 0 for current_player, in half points
RolloutResult(board, first_player) ==
    LET black_count == Count(board, 1)
        white_count == Count(board, -1)
        mine == IF first_player = 1 THEN black_count ELSE white_count
        theirs == IF first_player = 1 THEN white_count ELSE black_count
    IN  IF mine > theirs THEN 2 ELSE IF mine = theirs THEN 1 ELSE 0

\* MCTSAgent.simulation: the set of [result, final, mem] it can return, final
\* the board the rollout ended on; the state it played on is dropped when it
\* returns
simulation(mem, game_state) ==
    LET c == NewCopy(mem, game_state)
        first_player == c.mem.obj[c.state].current_player
    IN  { [result |-> RolloutResult(BoardOf(final, c.state), first_player),
           final |-> BoardOf(final, c.state),
           mem |-> Collect(final, DOMAIN mem.obj)]
          : final \in Rollout(c.mem, c.state) }

\* backpropagation adding the same result at every level
RECURSIVE backpropagationSameResult(_, _, _)
backpropagationSameResult(agent, node_key, result) ==
    LET counted ==
            [agent EXCEPT !.node_info[node_key].visits = @ + 1,
                          !.node_info[node_key].wins = @ + result]
        parents == {i \in DOMAIN agent.children :
                        node_key \in Range(agent.children[i].kids)}
    IN  IF parents = {} THEN counted
        ELSE backpropagationSameResult(counted,
                agent.children[CHOOSE i \in parents :
                                    \A j \in parents : i <= j].key,
                result)

\* backpropagation that counts the node it is given and stops there
backpropagationLeafOnly(agent, node_key, result) ==
    [agent EXCEPT !.node_info[node_key].visits = @ + 1,
                  !.node_info[node_key].wins = @ + result]

\* MCTSAgent.backpropagation: the agent after it
RECURSIVE backpropagation(_, _, _)
backpropagation(agent, node_key, result) ==
    LET counted ==
            [agent EXCEPT !.node_info[node_key].visits = @ + 1,
                          !.node_info[node_key].wins = @ + result]
        parents == {i \in DOMAIN agent.children :
                        node_key \in Range(agent.children[i].kids)}
    IN  IF parents = {} THEN counted
        ELSE backpropagation(counted,
                agent.children[CHOOSE i \in parents :
                                    \A j \in parents : i <= j].key,
                2 - result)

\* rollouts per iteration (the default of MCTSAgent.__init__)
nb_rollouts == 1

\* lines 182-185: the rollouts of one iteration, n of them still to do
RECURSIVE RolloutLoop(_, _, _, _, _)
RolloutLoop(agent, mem, expanded_state, expanded_key, n) ==
    IF n = 0 THEN {[agent |-> agent, mem |-> mem, results |-> <<>>]}
    ELSE UNION {
            { [rest EXCEPT !.results = <<r.result>> \o @]
              : rest \in RolloutLoop(
                            backpropagation(agent, expanded_key, r.result),
                            r.mem, expanded_state, expanded_key, n - 1) }
            : r \in simulation(NewCopy(mem, expanded_state).mem,
                               NewCopy(mem, expanded_state).state) }

\* lines 173-187: one iteration of the search loop on game_state; the set
\* of records it can end in: the agent and the heap after it, selected_key
\* (line 175) with the side to move of the selected state, expanded_key
\* (line 179), the agent as expansion left it and the results of the
\* rollouts in the order they were backpropagated
SearchIteration(agent, mem, game_state) ==
    UNION { UNION {
        { [agent |-> r.agent, mem |-> r.mem,
           selected_key |-> get_node_key(sel.mem, sel.state),
           selected_player |-> sel.mem.obj[sel.state].current_player,
           expanded_key |-> get_node_key(e.mem, e.state),
           expanded |-> e.agent, results |-> r.results]
          : r \in RolloutLoop(e.agent, e.mem, e.state,
                              get_node_key(e.mem, e.state), nb_rollouts) }
        : e \in expansion(sel.agent, NewCopy(sel.mem, sel.state).mem,
                          NewCopy(sel.mem, sel.state).state) }
        : sel \in selection(agent, NewCopy(mem, game_state).mem,
                            NewCopy(mem, game_state).state) }

\* max(kids, key=visits): the first kid with the most visits
MostVisited(agent, kids) ==
    kids[CHOOSE i \in DOMAIN kids :
            /\ \A j \in DOMAIN kids :
                    agent.node_info[kids[j]].visits
                        <= agent.node_info[kids[i]].visits
            /\ \A j \in 1 .. (i - 1) :
                    agent.node_info[kids[j]].visits
                        < agent.node_info[kids[i]].visits]

\* the first legal move taken without comparing the board it leads to
FindMoveFirst(mem, game_state, moves, i, best_child_key) ==
    IF i > Len(moves) THEN [move |-> None, mem |-> mem]
    ELSE [move |-> moves[i],
          mem |-> Successor(mem, game_state, moves[i]).mem]

\* lines 200-206: the loop looking for the move that leads to best_child_key
RECURSIVE FindMove(_, _, _, _, _)
FindMove(mem, game_state, moves, i, best_child_key) ==
    IF i > Len(moves) THEN [move |-> None, mem |-> mem]
    ELSE LET new_state == Successor(mem, game_state, moves[i])
         IN  IF get_node_key(new_state.mem, new_state.state) = best_child_key
             THEN [move |-> moves[i], mem |-> new_state.mem]
             ELSE FindMove(new_state.mem, game_state, moves, i + 1,
                           best_child_key)

\* lines 192-208: what timed_search returns once the time is up
BestMove(agent, mem, game_state, root_key) ==
    IF ~HasKey(agent.children, root_key) \/ Kids(agent.children, root_key) = <<>>
    THEN [move |-> None, mem |-> mem]
    ELSE FindMove(mem, game_state,
                  MoveList(valid_moves(mem, game_state,
                                       mem.obj[game_state].current_player),
                           agent.order),
                  1, MostVisited(agent, Kids(agent.children, root_key)))

\* a tie reported as a win of Black
get_winnerBlackOnTie(mem, self) ==
    LET black_count == Count(BoardOf(mem, self), 1)
        white_count == Count(BoardOf(mem, self), -1)
    IN  IF black_count >= white_count THEN "Black wins!"
        ELSE "White wins!"

\* Othello.get_winner
get_winner(mem, self) ==
    LET black_count == Count(BoardOf(mem, self), 1)
        white_count == Count(BoardOf(mem, self), -1)
    IN  IF black_count > white_count THEN "Black wins!"
        ELSE IF white_count > black_count THEN "White wins!"
        ELSE "It's a draw!"

\* lines 162-167: the value Othello.play returns
PlayResult(mem, self) ==
    LET black_count == Count(BoardOf(mem, self), 1)
        white_count == Count(BoardOf(mem, self), -1)
    IN  IF black_count = white_count THEN 0
        ELSE IF black_count > white_count THEN 1
        ELSE -1

\* Player.get_move of a Player('ai', color): a random legal move or None
RandomMoves(mem, game, color) ==
    IF valid_moves(mem, game, color) = {} THEN {None}
    ELSE valid_moves(mem, game, color)

(***************************************************************************)
(* Recorded games: move sequences played from the standard opening under   *)
(* the turn rule of Othello.play (lines 151-153).  The positions along     *)
(* them are the boards the rules engine and the agents are exercised on.   *)
(***************************************************************************)
\* one AI turn of Othello.play on a position [board, current_player]
PlayTurn(pos, move) ==
    LET r == BoardApplyMove(pos.board, move, pos.current_player)
    IN  [board |-> r.board,
         current_player |->
            IF BoardValidMoves(r.board, -pos.current_player) # {}
            THEN -pos.current_player ELSE pos.current_player]

StartPosition == [board |-> OpeningBoard, current_player |-> 1]

\* the positions before and after each of the first k moves of line, from
\* position start
RECURSIVE ReplayAll(_, _, _)
ReplayAll(start, line, k) ==
    IF k = 0 THEN <<start>>
    ELSE LET prev == ReplayAll(start, line, k - 1)
         IN  IF Len(prev) = k
             THEN Append(prev, PlayTurn(prev[k], line[k])) ELSE prev

\* a complete game of 60 moves, in four parts
LineFull1 ==
    <<
       <<2, 3>>, <<2, 2>>, <<2, 1>>, <<2, 4>>, <<2, 5>>, <<4, 2>>,
       <<5, 5>>, <<1, 6>>, <<4, 1>>, <<5, 2>>, <<3, 5>>, <<4, 0>>,
       <<0, 7>>, <<4, 5>>, <<5, 3>>
    >>
LineFull2 ==
    <<
       <<6, 4>>, <<6, 3>>, <<5, 4>>, <<7, 3>>, <<3, 2>>, <<6, 2>>,
       <<6, 1>>, <<7, 0>>, <<5, 1>>, <<3, 0>>, <<7, 5>>, <<3, 6>>,
       <<3, 1>>, <<7, 4>>, <<2, 0>>
    >>
LineFull3 ==
    <<
       <<6, 0>>, <<4, 6>>, <<7, 6>>, <<1, 2>>, <<3, 7>>, <<2, 6>>,
       <<1, 0>>, <<2, 7>>, <<0, 2>>, <<0, 3>>, <<1, 3>>, <<0, 4>>,
       <<0, 5>>, <<6, 5>>, <<5, 0>>
    >>
LineFull4 ==
    <<
       <<5, 7>>, <<1, 4>>, <<7, 1>>, <<6, 6>>, <<7, 2>>, <<4, 7>>,
       <<5, 6>>, <<1, 7>>, <<6, 7>>, <<7, 7>>, <<0, 6>>, <<1, 1>>,
       <<1, 5>>, <<0, 0>>, <<0, 1>>
    >>

PositionsFull1 == ReplayAll(StartPosition, LineFull1, Len(LineFull1))
PositionsFull2 == ReplayAll(Last(PositionsFull1), LineFull2, Len(LineFull2))
PositionsFull3 == ReplayAll(Last(PositionsFull2), LineFull3, Len(LineFull3))
PositionsFull4 == ReplayAll(Last(PositionsFull3), LineFull4, Len(LineFull4))

\* a game that ends after 9 moves with no legal move for either side
LineShort ==
    <<
       <<2, 3>>, <<2, 2>>, <<4, 5>>, <<3, 5>>, <<2, 5>>, <<1, 3>>,
       <<0, 3>>, <<2, 4>>, <<2, 1>>
    >>

PositionsShort == ReplayAll(StartPosition, LineShort, Len(LineShort))

\* every position of the two games
LinePositions ==
    Range(PositionsFull1) \cup Range(PositionsFull2) \cup Range(PositionsFull3)
        \cup Range(PositionsFull4) \cup Range(PositionsShort)

EveryOther(seq) == {seq[i] : i \in {j \in DOMAIN seq : j % 2 = 1}}

\* the positions the rules engine is called on: every other position of the
\* first 45 moves of the long game, and every position of its last 15 moves
\* and of the short game
SampledPositions ==
    EveryOther(PositionsFull1) \cup EveryOther(PositionsFull2)
        \cup EveryOther(PositionsFull3) \cup Range(PositionsFull4)
        \cup Range(PositionsShort)

\* a full board with alternating colours
CheckerBoard ==
    << <<1, -1, 1, -1, 1, -1, 1, -1>>, <<-1, 1, -1, 1, -1, 1, -1, 1>>,
       <<1, -1, 1, -1, 1, -1, 1, -1>>, <<-1, 1, -1, 1, -1, 1, -1, 1>>,
       <<1, -1, 1, -1, 1, -1, 1, -1>>, <<-1, 1, -1, 1, -1, 1, -1, 1>>,
       <<1, -1, 1, -1, 1, -1, 1, -1>>, <<-1, 1, -1, 1, -1, 1, -1, 1>> >>

\* boards outside normal play that a caller can still hand to the engine
DegeneratePositions ==
    {[board |-> b, current_player |-> 1]
        : b \in {EmptyBoard, FullBoard(1), FullBoard(-1), CheckerBoard}}

MaxCalls == 2

VARIABLES
    obj,        \* heap: object slot -> Othello instance
    grid,       \* heap: grid slot -> 8x8 array
    last,       \* the last engine call: its arguments, result and pre-state
    budget,     \* number of engine calls the caller still makes
    players,    \* self.players: colour -> agent, an MCTS agent with its tree
    ctl         \* Othello.play: where the loop is, the move get_move gave

vars == <<obj, grid, last, budget, players, ctl>>

Mem == [obj |-> obj, grid |-> grid]
Board == BoardOf(Mem, Game)
CurrentPlayer == obj[Game].current_player

NewGame(pos) ==
    [obj |-> (Game :> [board |-> Game, current_player |-> pos.current_player]),
     grid |-> (Game :> pos.board)]

\* no agent takes part: the engine is called directly
NoPlayers == [color \in Players |-> [kind |-> "human", color |-> color]]

Idle ==
    [pc |-> "idle", move |-> None, root_key |-> None, selected_key |-> None,
     selected_player |-> None, expanded_key |-> None, expanded |-> None,
     results |-> <<>>,
     iterations |-> 0]

NoCall(pos) ==
    [op |-> "none", move |-> <<0, 0>>, player |-> 1, result |-> FALSE,
     moves |-> {}, before |-> pos.board,
     before_player |-> pos.current_player]

(***************************************************************************)
(* Spec: the rules engine under arbitrary calls of its operations on the   *)
(* live game.                                                              *)
(***************************************************************************)
\* Sequences of up to MaxCalls calls are made on the standard opening, a
\* single call on each sampled position of the recorded games and on each
\* degenerate board.  A sequence is followed up to its first query or
\* rejected move: such a call leaves the game as it was, so the calls after
\* it see a game that some shorter sequence has produced.
Init ==
    \E pos \in SampledPositions \cup DegeneratePositions :
        /\ obj = NewGame(pos).obj
        /\ grid = NewGame(pos).grid
        /\ last = NoCall(pos)
        /\ budget \in (IF pos = StartPosition THEN {MaxCalls} ELSE {1})
        /\ players = NoPlayers
        /\ ctl = Idle

\* game.apply_move(move, player) for any cell and either player
ApplyMoveCall(move, player) ==
    /\ budget > 0
    /\ \E r \in {apply_move(Mem, Game, move, player)} :
           /\ obj' = r.mem.obj
           /\ grid' = r.mem.grid
           /\ last' = [op |-> "apply_move", move |-> move, player |-> player,
                       result |-> r.result, moves |-> {}, before |-> Board,
                       before_player |-> CurrentPlayer]
           /\ budget' = IF r.result THEN budget - 1 ELSE 0
    /\ UNCHANGED <<players, ctl>>

\* game.valid_moves(player)
ValidMovesCall(player) ==
    /\ budget > 0
    /\ last' = [op |-> "valid_moves", move |-> <<0, 0>>, player |-> player,
                result |-> FALSE, moves |-> valid_moves(Mem, Game, player),
                before |-> Board, before_player |-> CurrentPlayer]
    /\ budget' = 0
    /\ UNCHANGED <<obj, grid, players, ctl>>

\* game.is_game_over()
IsGameOverCall ==
    /\ budget > 0
    /\ last' = [op |-> "is_game_over", move |-> <<0, 0>>, player |-> 1,
                result |-> is_game_over(Mem, Game), moves |-> {},
                before |-> Board, before_player |-> CurrentPlayer]
    /\ budget' = 0
    /\ UNCHANGED <<obj, grid, players, ctl>>

Next ==
    \/ \E move \in Cells, player \in Players : ApplyMoveCall(move, player)
    \/ \E player \in Players : ValidMovesCall(player)
    \/ IsGameOverCall

Spec == Init /\ [][Next]_vars

(***************************************************************************)
(* SpecSearch: MinMaxPlayer.minimax and MinMaxPlayer.get_move called on    *)
(* positions of the recorded games, for every colour, heuristic and move   *)
(* order, every depth up to MaxDepth and a choice of windows.              *)
(***************************************************************************)
MaxDepth == 2

\* positions searched: early and late positions of the long game, the
\* positions around its forced passes and its end, and the last positions
\* of the short game
SearchPositions ==
    {PositionsFull1[2], PositionsFull1[8], PositionsFull1[14],
     PositionsFull4[8], PositionsFull4[10], PositionsFull4[12],
     PositionsFull4[13], PositionsFull4[14], PositionsFull4[15],
     PositionsFull4[16], PositionsShort[7], PositionsShort[8],
     PositionsShort[10]}

MinMaxConfigs ==
    [color : Players, heuristic : Heuristics, depth : 1 .. MaxDepth,
     order : Orders]

\* (alpha, beta) pairs minimax is entered with: the full window of get_move
\* and windows as the recursion narrows them
Windows ==
    { <<NegInf, PosInf>>, <<Frac(0, 1), PosInf>>, <<NegInf, Frac(0, 1)>>,
      <<Frac(-50, 1), Frac(50, 1)>> }

InitSearch ==
    \E pos \in SearchPositions :
        /\ obj = NewGame(pos).obj
        /\ grid = NewGame(pos).grid
        /\ last = NoCall(pos)
        /\ budget = 1
        /\ players = NoPlayers
        /\ ctl = Idle

\* player.minimax(game, depth, alpha, beta, maximizing)
MinimaxCall(cfg, depth, window, maximizing) ==
    /\ budget > 0
    /\ \E r \in {minimax(cfg, Mem, Game, depth, window[1], window[2],
                        maximizing, Game + 1)} :
       \E kept \in {Collect(r.mem, {Game})} :
           /\ obj' = kept.obj
           /\ grid' = kept.grid
           /\ last' = [op |-> "minimax", cfg |-> cfg, depth |-> depth,
                       alpha |-> window[1], beta |-> window[2],
                       maximizing |-> maximizing, score |-> r.score,
                       move |-> r.move, breaks |-> r.breaks,
                       before |-> Board, before_player |-> CurrentPlayer]
    /\ budget' = 0
    /\ UNCHANGED <<players, ctl>>

\* player.get_move(game)
GetMoveCall(cfg) ==
    /\ budget > 0
    /\ \E r \in {minmax_get_move(cfg, Mem, Game, Game + 1)} :
       \E kept \in {Collect(r.mem, {Game})} :
           /\ obj' = kept.obj
           /\ grid' = kept.grid
           /\ last' = [op |-> "get_move", cfg |-> cfg, move |-> r.move,
                       before |-> Board, before_player |-> CurrentPlayer]
    /\ budget' = 0
    /\ UNCHANGED <<players, ctl>>

NextSearch ==
    \/ \E cfg \in MinMaxConfigs, depth \in 0 .. MaxDepth, window \in Windows,
          maximizing \in BOOLEAN :
            /\ cfg.depth = 1
            /\ MinimaxCall(cfg, depth, window, maximizing)
    \/ \E cfg \in MinMaxConfigs : GetMoveCall(cfg)

SpecSearch == InitSearch /\ [][NextSearch]_vars

(***************************************************************************)
(* SpecEval: the heuristics, Othello.get_winner and the end of             *)
(* Othello.play, called once on a position: the positions of the recorded  *)
(* games and boards outside normal play.                                   *)
(***************************************************************************)
\* a board with a single disk
LoneDiskBoard == SetCell(EmptyBoard, <<3, 3>>, 1)

EvalPositions ==
    SampledPositions \cup DegeneratePositions
        \cup {[board |-> LoneDiskBoard, current_player |-> 1]}

InitEval ==
    \E pos \in EvalPositions :
        /\ obj = NewGame(pos).obj
        /\ grid = NewGame(pos).grid
        /\ last = NoCall(pos)
        /\ budget = 1
        /\ players = NoPlayers
        /\ ctl = Idle

\* heuristic(game, player)
HeuristicCall(h, player) ==
    /\ budget > 0
    /\ last' = [op |-> "heuristic", heuristic |-> h, player |-> player,
                value |-> Evaluate(h, Mem, Game, player),
                before |-> Board, before_player |-> CurrentPlayer]
    /\ budget' = 0
    /\ UNCHANGED <<obj, grid, players, ctl>>

\* game.get_winner()
GetWinnerCall ==
    /\ budget > 0
    /\ last' = [op |-> "get_winner", text |-> get_winner(Mem, Game),
                before |-> Board, before_player |-> CurrentPlayer]
    /\ budget' = 0
    /\ UNCHANGED <<obj, grid, players, ctl>>

\* lines 155-167: the game is over, show_winner() calls get_winner(), the
\* loop ends and play returns
GameEnd ==
    /\ budget > 0
    /\ is_game_over(Mem, Game)
    /\ last' = [op |-> "play", text |-> get_winner(Mem, Game),
                result |-> PlayResult(Mem, Game),
                before |-> Board, before_player |-> CurrentPlayer]
    /\ budget' = 0
    /\ ctl' = [ctl EXCEPT !.pc = "over"]
    /\ UNCHANGED <<obj, grid, players>>

\* empty cells of the boards rollouts are started on
MaxEmpty == 5

\* agent.simulation(state) on a copy of the game with player to move, as
\* the search loop hands it over (line 183)
SimulationCall(player) ==
    /\ budget > 0
    /\ \/ BoardIsGameOver(Board)
       \/ Count(Board, 1) + Count(Board, -1) >= N * N - MaxEmpty
    /\ \E c \in {NewCopy(Mem, Game)} :
       \E r \in simulation([c.mem EXCEPT !.obj[c.state].current_player
                                            = player], c.state) :
       \E kept \in {Collect(r.mem, {Game})} :
           /\ obj' = kept.obj
           /\ grid' = kept.grid
           /\ last' = [op |-> "simulation", player |-> player,
                       result |-> r.result, final |-> r.final,
                       before |-> Board, before_player |-> CurrentPlayer]
    /\ budget' = 0
    /\ UNCHANGED <<players, ctl>>

NextEval ==
    \/ \E h \in AllHeuristics, player \in Players : HeuristicCall(h, player)
    \/ GetWinnerCall
    \/ GameEnd
    \/ \E player \in Players : SimulationCall(player)

SpecEval == InitEval /\ [][NextEval]_vars

(***************************************************************************)
(* SpecPlay: Othello.play between two agents, from late positions of the   *)
(* long recorded game.  An agent is a MinMaxPlayer, an MCTSAgent or a      *)
(* Player('ai', color); the agent of a colour is the same object for the   *)
(* whole game, so an MCTSAgent keeps its tree from one turn to the next.   *)
(***************************************************************************)
\* turns of the play loop that are followed
MaxTurns == 2

\* iterations the search loop of timed_search makes before its time is up
MaxIters == 2

\* the position before move 56 of the long game, from which the loop is
\* followed one turn further, between an MCTSAgent to move and a Player('ai'):
\* the side to move there moves again two turns later, after a move of the
\* other side
LongPlayPosition == PositionsFull4[11]

\* the positions before moves 56 to 59 of the long game; its last three
\* moves are turns of the same side, the other side having no move
PlayPositions ==
    {LongPlayPosition, PositionsFull4[12], PositionsFull4[13],
     PositionsFull4[14]}

\* MinMaxPlayer(color, heuristic_function=coin_parity_heuristic, depth=3)
MinMaxAgent(color) ==
    [kind |-> "minmax",
     cfg |-> [color |-> color, heuristic |-> "coin_parity", depth |-> 3,
              order |-> "asc"]]

\* MCTSAgent(color): time_limit is set, the tree is empty
NewMCTSAgent(color, order) ==
    [kind |-> "mcts", id |-> color, order |-> order, children |-> <<>>,
     node_info |-> [key \in {} |-> NoList]]

\* Player('ai', color)
RandomAgent(color) == [kind |-> "random", color |-> color]

AgentsOf(color) ==
    {MinMaxAgent(color), RandomAgent(color), NewMCTSAgent(color, "asc")}

\* the turn passing to the other side after every move
TurnStepAlwaysSwitch(mem, self, move) ==
    IF move = None THEN mem
    ELSE FlipPlayer(apply_move(mem, self, move,
                               mem.obj[self].current_player).mem, self)

\* lines 150-153: if move: apply_move(move, current_player); if the other
\* side has a move: current_player *= -1
TurnStep(mem, self, move) ==
    IF move = None THEN mem
    ELSE LET player == mem.obj[self].current_player
             applied == apply_move(mem, self, move, player).mem
         IN  IF valid_moves(applied, self, -player) # {}
             THEN FlipPlayer(applied, self)
             ELSE applied

InitPlay ==
    \E pos \in PlayPositions :
        /\ obj = NewGame(pos).obj
        /\ grid = NewGame(pos).grid
        /\ last = NoCall(pos)
        /\ budget = IF pos = LongPlayPosition THEN MaxTurns + 1 ELSE MaxTurns
        /\ players \in [Players -> UNION {AgentsOf(c) : c \in Players}]
        /\ \A c \in Players : players[c] \in AgentsOf(c)
        /\ pos = LongPlayPosition
                => /\ players[pos.current_player].kind = "mcts"
                   /\ players[-pos.current_player].kind = "random"
        /\ ctl = [Idle EXCEPT !.pc = "turn"]

\* line 149 with a MinMaxPlayer to move
MinMaxGetMove ==
    /\ ctl.pc = "turn"
    /\ budget > 0
    /\ players[CurrentPlayer].kind = "minmax"
    /\ \E r \in {minmax_get_move(players[CurrentPlayer].cfg, Mem, Game,
                                Game + 1)} :
       \E kept \in {Collect(r.mem, {Game})} :
           /\ obj' = kept.obj
           /\ grid' = kept.grid
           /\ ctl' = [ctl EXCEPT !.pc = "got_move", !.move = r.move]
           /\ last' = [op |-> "get_move", kind |-> "minmax",
                       move |-> r.move, iterations |-> 0,
                       before |-> Board, before_player |-> CurrentPlayer]
    /\ UNCHANGED <<budget, players>>

\* line 149 with a Player('ai') to move
RandomGetMove ==
    /\ ctl.pc = "turn"
    /\ budget > 0
    /\ players[CurrentPlayer].kind = "random"
    /\ \E choice \in RandomMoves(Mem, Game, players[CurrentPlayer].color) :
           /\ ctl' = [ctl EXCEPT !.pc = "got_move", !.move = choice]
           /\ last' = [op |-> "get_move", kind |-> "random", move |-> choice,
                       iterations |-> 0, before |-> Board,
                       before_player |-> CurrentPlayer]
    /\ UNCHANGED <<obj, grid, budget, players>>

\* line 149 with an MCTSAgent to move: timed_search up to its loop
SearchBegin ==
    /\ ctl.pc = "turn"
    /\ budget > 0
    /\ players[CurrentPlayer].kind = "mcts"
    /\ ctl' = [Idle EXCEPT !.pc = "search",
                            !.root_key = get_node_key(Mem, Game)]
    /\ last' = [op |-> "search", kind |-> "mcts", move |-> None,
                iterations |-> 0, before |-> Board,
                before_player |-> CurrentPlayer,
                fresh |-> /\ players[CurrentPlayer].children = <<>>
                          /\ DOMAIN players[CurrentPlayer].node_info = {}]
    /\ UNCHANGED <<obj, grid, budget, players>>

\* one iteration of the loop of timed_search
SearchIterate ==
    /\ ctl.pc = "search"
    /\ ctl.iterations < MaxIters
    /\ \E r \in SearchIteration(players[CurrentPlayer], Mem, Game) :
       \E kept \in {Collect(r.mem, {Game})} :
           /\ obj' = kept.obj
           /\ grid' = kept.grid
           /\ players' = [players EXCEPT ![CurrentPlayer] = r.agent]
           /\ ctl' = [ctl EXCEPT !.iterations = @ + 1,
                                 !.selected_key = r.selected_key,
                                 !.selected_player = r.selected_player,
                                 !.expanded_key = r.expanded_key,
                                 !.expanded = r.expanded,
                                 !.results = r.results]
    /\ UNCHANGED <<last, budget>>

\* the time of timed_search is up: the time limit is 3 seconds, the first
\* test of the loop is passed
SearchEnd ==
    /\ ctl.pc = "search"
    /\ ctl.iterations >= 1
    /\ \E r \in {BestMove(players[CurrentPlayer], Mem, Game, ctl.root_key)} :
       \E kept \in {Collect(r.mem, {Game})} :
           /\ obj' = kept.obj
           /\ grid' = kept.grid
           /\ ctl' = [ctl EXCEPT !.pc = "got_move", !.move = r.move]
           /\ last' = [last EXCEPT !.op = "get_move", !.move = r.move,
                                   !.iterations = ctl.iterations]
    /\ UNCHANGED <<budget, players>>

\* lines 150-158: the move is applied, the turn passes or not, the loop
\* ends when the game is over
ApplyStep ==
    /\ ctl.pc = "got_move"
    /\ \E r \in {TurnStep(Mem, Game, ctl.move)} :
           /\ obj' = r.obj
           /\ grid' = r.grid
           /\ ctl' = [ctl EXCEPT !.pc = IF is_game_over(r, Game)
                                        THEN "over" ELSE "turn"]
    /\ last' = [op |-> "turn", kind |-> last.kind, move |-> ctl.move,
                iterations |-> last.iterations, before |-> Board,
                before_player |-> CurrentPlayer]
    /\ budget' = budget - 1
    /\ UNCHANGED players

NextPlay ==
    \/ MinMaxGetMove
    \/ RandomGetMove
    \/ SearchBegin
    \/ SearchIterate
    \/ SearchEnd
    \/ ApplyStep

SpecPlay == InitPlay /\ [][NextPlay]_vars

(***************************************************************************)
(* SpecLoop: the loop of Othello.play from the boards Othello.__init__     *)
(* can set up, and from the late positions of the recorded games, between  *)
(* two Player('ai') agents, whose get_move can return every legal move.    *)
(***************************************************************************)
\* the default of the parameter moves of create_random_opening
random_opening_moves == 4

\* lines 34-42: the games the loop of create_random_opening can end in,
\* moves rounds of it still to run on game
RECURSIVE RandomOpening(_, _)
RandomOpening(game, moves) ==
    IF moves = 0 THEN {game}
    ELSE LET valid_moves_ == BoardValidMoves(game.board, game.current_player)
         IN  IF valid_moves_ = {} THEN {game}
             ELSE UNION {
                    RandomOpening(
                        [board |-> BoardApplyMove(game.board, move,
                                        game.current_player).board,
                         current_player |-> -game.current_player],
                        moves - 1)
                    : move \in valid_moves_ }

\* Othello.create_random_opening: the games it can return
create_random_opening == RandomOpening(StartPosition, random_opening_moves)

\* Othello.__init__ with isopeningRandom (lines 19-23): the board of the
\* random opening is kept, current_player is 1
RandomOpeningPositions ==
    {[board |-> game.board, current_player |-> 1]
        : game \in create_random_opening}

\* the positions the loop is started on
LoopPositions ==
    {StartPosition} \cup RandomOpeningPositions \cup Range(PositionsFull4)
        \cup Range(PositionsShort)

InitLoop ==
    \E pos \in LoopPositions :
        /\ obj = NewGame(pos).obj
        /\ grid = NewGame(pos).grid
        /\ last = NoCall(pos)
        /\ budget = IF pos \in RandomOpeningPositions THEN 1 ELSE MaxTurns
        /\ players = [c \in Players |-> RandomAgent(c)]
        /\ ctl = [Idle EXCEPT !.pc = IF BoardIsGameOver(pos.board)
                                     THEN "over" ELSE "turn"]

NextLoop ==
    \/ RandomGetMove
    \/ ApplyStep

SpecLoop == InitLoop /\ [][NextLoop]_vars

(***************************************************************************)
(* The rules of the game, stated on a board without reference to the       *)
(* scanning loops: the cells a disk of player at x brackets.               *)
(***************************************************************************)
DirectionSet == {d \in (-1 .. 1) \X (-1 .. 1) : d # <<0, 0>>}

\* the n cells after x in direction d hold -player and the next holds player
Bracketed(b, x, d, player, n) ==
    /\ \A j \in 1 .. n :
            /\ InBoard(x[1] + j * d[1], x[2] + j * d[2])
            /\ At(b, x[1] + j * d[1], x[2] + j * d[2]) = -player
    /\ InBoard(x[1] + (n + 1) * d[1], x[2] + (n + 1) * d[2])
    /\ At(b, x[1] + (n + 1) * d[1], x[2] + (n + 1) * d[2]) = player

Captured(b, x, player) ==
    UNION { {<<x[1] + j * dn[1][1], x[2] + j * dn[1][2]>> : j \in 1 .. dn[2]}
            : dn \in {e \in DirectionSet \X (1 .. (N - 2)) :
                        Bracketed(b, x, e[1], player, e[2])} }

\* a direction in which the cell next to x holds a disk of -player
Touches(b, x, d, player) ==
    /\ InBoard(x[1] + d[1], x[2] + d[2])
    /\ At(b, x[1] + d[1], x[2] + d[2]) = -player

LegalCells(b, player) ==
    {x \in Cells :
        /\ At(b, x[1], x[2]) = 0
        /\ \E d \in DirectionSet :
            /\ Touches(b, x, d, player)
            /\ \E n \in 1 .. (N - 2) : Bracketed(b, x, d, player, n)}

Disks(b) == Cardinality({x \in Cells : At(b, x[1], x[2]) # 0})

\* C1: valid_moves(p) is exactly the set of empty cells from which, in at
\* least one of the 8 directions, a run of one or more -p disks is followed
\* inside the board by a p disk.
C1_ValidMovesExact ==
    /\ \A p \in Players : valid_moves(Mem, Game, p) = LegalCells(Board, p)
    /\ last.op = "valid_moves" => last.moves = LegalCells(Board, last.player)

\* a valid_moves call that returned some cells and left out an empty cell
\* next to an opponent disk (its run is not closed by a disk of the player)
C1_Witness ==
    /\ last.op = "valid_moves"
    /\ last.moves # {}
    /\ \E x \in Cells :
        /\ At(Board, x[1], x[2]) = 0
        /\ x \notin last.moves
        /\ \E d \in DirectionSet :
            /\ InBoard(x[1] + d[1], x[2] + d[2])
            /\ At(Board, x[1] + d[1], x[2] + d[2]) = -last.player

\* C2: apply_move(m, p) with m not a legal move of p returns False and
\* leaves every cell of the board and current_player unchanged.
C2_IllegalMoveRejected ==
    (last.op = "apply_move" /\ last.move \notin LegalCells(last.before, last.player))
        => /\ last.result = FALSE
           /\ Board = last.before
           /\ CurrentPlayer = last.before_player

\* illegal calls happened on an occupied cell and on an empty cell that
\* touches an opponent disk
C2_Witness ==
    /\ last.op = "apply_move"
    /\ last.result = FALSE
    /\ At(last.before, last.move[1], last.move[2]) = 0
    /\ \E d \in DirectionSet :
        /\ InBoard(last.move[1] + d[1], last.move[2] + d[2])
        /\ At(last.before, last.move[1] + d[1], last.move[2] + d[2])
                = -last.player

\* C3: apply_move(m, p) with m legal returns True and changes exactly the
\* cell m and the cells of the runs of -p disks that start next to m and are
\* closed by a p disk, all of which become p; runs that end at an empty cell
\* or at the edge are not flipped.
C3_LegalMoveFlipsExactly ==
    (last.op = "apply_move" /\ last.move \in LegalCells(last.before, last.player))
        => /\ last.result = TRUE
           /\ LET flipped == Captured(last.before, last.move, last.player)
              IN  \A x \in Cells :
                    At(Board, x[1], x[2]) =
                        IF x = last.move \/ x \in flipped
                        THEN last.player
                        ELSE At(last.before, x[1], x[2])

\* an open run: the cells after x in direction d hold -player up to an empty
\* cell or the edge
OpenRun(b, x, d, player) ==
    /\ InBoard(x[1] + d[1], x[2] + d[2])
    /\ At(b, x[1] + d[1], x[2] + d[2]) = -player
    /\ \A n \in 1 .. (N - 2) : ~Bracketed(b, x, d, player, n)

\* a legal move that flipped runs in two directions, one of them of length
\* two or more, and left an open run untouched
C3_Witness ==
    /\ last.op = "apply_move"
    /\ last.result = TRUE
    /\ \E d1, d2 \in DirectionSet :
        /\ d1 # d2
        /\ \E n \in 2 .. (N - 2) :
                Bracketed(last.before, last.move, d1, last.player, n)
        /\ \E n \in 1 .. (N - 2) :
                Bracketed(last.before, last.move, d2, last.player, n)
    /\ \E d \in DirectionSet : OpenRun(last.before, last.move, d, last.player)

\* C4: a legal apply_move turns at least one -p disk into a p disk and adds
\* exactly one disk; no call lowers the number of disks or empties a cell.
C4_DisksConserved ==
    last.op = "apply_move" =>
        /\ last.move \in valid_moves([obj |-> obj,
                                      grid |-> (Game :> last.before)],
                                     Game, last.player)
            => /\ \E x \in Cells :
                    /\ At(last.before, x[1], x[2]) = -last.player
                    /\ At(Board, x[1], x[2]) = last.player
               /\ Disks(Board) = Disks(last.before) + 1
        /\ Disks(Board) >= Disks(last.before)
        /\ \A x \in Cells :
                At(last.before, x[1], x[2]) # 0 => At(Board, x[1], x[2]) # 0

\* a legal move was applied to a position of a game played from the opening
C4_Witness ==
    /\ last.op = "apply_move"
    /\ last.result = TRUE
    /\ \E pos \in LinePositions : pos.board = last.before
    /\ Disks(Board) = Disks(last.before) + 1

\* C10: is_game_over() is True exactly when neither side has a legal move;
\* in particular it is True on every board without an empty cell.
C10_GameOverIffNoMoves ==
    /\ is_game_over(Mem, Game)
        <=> (LegalCells(Board, 1) = {} /\ LegalCells(Board, -1) = {})
    /\ Disks(Board) = N * N => is_game_over(Mem, Game)
    /\ last.op = "is_game_over" =>
            (last.result <=> (LegalCells(Board, 1) = {}
                                /\ LegalCells(Board, -1) = {}))

\* is_game_over() answered True on a board that still has empty cells
C10_Witness ==
    /\ last.op = "is_game_over"
    /\ last.result = TRUE
    /\ Disks(Board) < N * N
    /\ Disks(Board) > 0

\* is_game_over() answered True on a full board
C10_WitnessFull ==
    /\ last.op = "is_game_over"
    /\ last.result = TRUE
    /\ Disks(Board) = N * N

(***************************************************************************)
(* The same recursion as MinMaxPlayer.minimax without alpha, beta and the  *)
(* two break statements: the value of a node is the heuristic at depth 0   *)
(* or at the end of the game, the value of the same board one level lower  *)
(* with the other side acting when the acting side has no move, and        *)
(* otherwise the largest (smallest) value of the boards its moves lead to. *)
(***************************************************************************)
Largest(scores) == CHOOSE v \in scores : \A w \in scores : Ge(v, w)
Smallest(scores) == CHOOSE v \in scores : \A w \in scores : Le(v, w)

RECURSIVE UnprunedValue(_, _, _, _)
UnprunedValue(cfg, b, depth, maximizing) ==
    LET acting == IF maximizing THEN cfg.color ELSE -cfg.color
        moves == LegalCells(b, acting)
    IN  IF depth = 0 \/ (LegalCells(b, 1) = {} /\ LegalCells(b, -1) = {})
        THEN heuristic_function(cfg.heuristic, NewGame([board |-> b,
                                    current_player |-> 1]), Game, cfg.color)
        ELSE IF moves = {}
        THEN UnprunedValue(cfg, b, depth - 1, ~maximizing)
        ELSE LET values ==
                    {UnprunedValue(cfg, BoardApplyMove(b, m, acting).board,
                                   depth - 1, ~maximizing) : m \in moves}
             IN  IF maximizing THEN Largest(values) ELSE Smallest(values)

FullWindow(call) == call.alpha = NegInf /\ call.beta = PosInf

ActingSide(call) == IF call.maximizing THEN call.cfg.color ELSE -call.cfg.color

\* C6: with depth >= 1, on a position that is not over and in which the
\* agent's colour has a legal move, get_move returns one of the legal moves
\* of that colour; minimax returns no move only at depth 0, at the end of the
\* game, or where the acting side has no legal move.
C6_MinMaxReturnsLegalMove ==
    /\ (last.op = "get_move" /\ LegalCells(last.before, last.cfg.color) # {})
            => last.move \in LegalCells(last.before, last.cfg.color)
    /\ (last.op = "minimax" /\ last.move = None)
            => \/ last.depth = 0
               \/ (LegalCells(last.before, 1) = {}
                     /\ LegalCells(last.before, -1) = {})
               \/ LegalCells(last.before, ActingSide(last)) = {}

\* get_move at depth 2 answered with a move where the agent had a choice
C6_Witness ==
    /\ last.op = "get_move"
    /\ last.cfg.depth >= 2
    /\ Cardinality(LegalCells(last.before, last.cfg.color)) >= 2
    /\ last.move # None

\* C7: the score of minimax(game, d, -inf, +inf, True) equals the score of
\* the same recursion without the alpha-beta cut-offs.
C7_PruningKeepsScore ==
    (last.op = "minimax" /\ FullWindow(last) /\ last.maximizing)
        => SameScore(last.score,
                     UnprunedValue(last.cfg, last.before, last.depth, TRUE))

\* a depth-2 search with the full window left a loop by a break statement
C7_Witness ==
    /\ last.op = "minimax"
    /\ FullWindow(last)
    /\ last.maximizing
    /\ last.depth >= 2
    /\ last.breaks > 0

\* C5: when MCTSAgent.get_move returns after at least one iteration of its
\* search, on a fresh or on a reused agent, and the side to move has a legal
\* move, the result is one of the legal moves of that side (None is returned
\* only without a legal move).
C5_MCTSMoveIsLegal ==
    (ctl.pc = "got_move" /\ last.kind = "mcts" /\ last.iterations >= 1
        /\ LegalCells(last.before, last.before_player) # {})
        => ctl.move \in LegalCells(last.before, last.before_player)

\* C8: when MinMaxPlayer.get_move or MCTSAgent.get_move has returned, and
\* all through the iterations of the MCTS search, the board and
\* current_player of the caller's game are what they were before the call.
C8_SearchLeavesGameAlone ==
    (ctl.pc \in {"search", "got_move"} /\ last.kind \in {"minmax", "mcts"})
        => /\ Board = last.before
           /\ CurrentPlayer = last.before_player

\* an MCTS search of two iterations (selection from a root with a child,
\* expansion, rollout) returned a move
C8_Witness ==
    /\ ctl.pc = "got_move"
    /\ last.kind = "mcts"
    /\ last.iterations >= 2
    /\ ctl.move # None
    /\ Kids(players[CurrentPlayer].children, ctl.root_key) # <<>>

\* a MinMaxPlayer at depth 3 returned a move where it had a choice
C8_WitnessMinMax ==
    /\ ctl.pc = "got_move"
    /\ last.kind = "minmax"
    /\ ctl.move # None
    /\ Cardinality(LegalCells(Board, CurrentPlayer)) >= 2

\* C9: once the play loop has applied the agent's move for side p,
\* current_player is -p if -p has a legal move on the new board and is p
\* otherwise.
C9_TurnPassesIffOpponentCanMove ==
    (last.op = "turn" /\ last.move # None)
        => CurrentPlayer =
                IF LegalCells(Board, -last.before_player) # {}
                THEN -last.before_player
                ELSE last.before_player

\* a move was applied after which the other side had no move and the game
\* was not over: the same side is to move again
C9_Witness ==
    /\ last.op = "turn"
    /\ last.move # None
    /\ Board # last.before
    /\ CurrentPlayer = last.before_player
    /\ ctl.pc = "turn"

\* a move was applied and the turn passed to the other side
C9_WitnessSwitch ==
    /\ last.op = "turn"
    /\ last.move # None
    /\ CurrentPlayer = -last.before_player
    /\ LegalCells(Board, CurrentPlayer) # {}

(***************************************************************************)
(* C11: in every position in which the side to move has exactly one legal  *)
(* move, the get_move of an MCTSAgent returns that move, whatever the      *)
(* number of iterations its search made and whatever it drew at random.    *)
(***************************************************************************)
C11_SingleLegalMoveReturned ==
    (ctl.pc = "got_move" /\ last.kind = "mcts" /\ last.iterations >= 1
        /\ Cardinality(LegalCells(last.before, last.before_player)) = 1)
        => {ctl.move} = LegalCells(last.before, last.before_player)

(***************************************************************************)
(* C12: when the root has a child at the end of the search, the move that  *)
(* get_move returns is a legal move of the side to move, the board it      *)
(* leads to is a child of the root, and no child of the root has more      *)
(* visits than that one.                                                   *)
(***************************************************************************)
RootKids == Kids(players[last.before_player].children, ctl.root_key)

VisitsOf(key) == players[last.before_player].node_info[key].visits

C12_MostVisitedChildReturned ==
    (ctl.pc = "got_move" /\ last.kind = "mcts" /\ RootKids # <<>>)
        => /\ ctl.move \in LegalCells(last.before, last.before_player)
           /\ \E k \in Range(RootKids) :
                /\ k = BoardApplyMove(last.before, ctl.move,
                                      last.before_player).board
                /\ \A j \in Range(RootKids) : VisitsOf(j) <= VisitsOf(k)

\* the move returned after two iterations is not the first legal move
C12_Witness ==
    /\ ctl.pc = "got_move" /\ last.kind = "mcts" /\ RootKids # <<>>
    /\ last.iterations = 2
    /\ VisitsOf(RootKids[1]) = 2
    /\ ctl.move \in LegalCells(last.before, last.before_player)
    /\ \E x \in LegalCells(last.before, last.before_player) :
            <<x[1], x[2]>> # ctl.move /\ MoveList({x, ctl.move}, "asc")[1] = x

(***************************************************************************)
(* C13: minimax called with depth 0 returns the value of the heuristic for *)
(* the colour of the player and no move, on every position (over or not,   *)
(* with or without a move for either side), for every window and for both  *)
(* values of the maximizing flag; the game it was given is unchanged.      *)
(***************************************************************************)
C13_DepthZeroIsHeuristic ==
    (last.op = "minimax" /\ last.depth = 0)
        => /\ last.move = None
           /\ Board = last.before
           /\ last.score = heuristic_function(last.cfg.heuristic, Mem, Game,
                                              last.cfg.color)
           /\ last.breaks = 0

\* a depth-0 call with the minimizing flag and a window that excludes the
\* value returned, on a position that is not over and has no move for the
\* side the flag names
C13_Witness ==
    /\ last.op = "minimax" /\ last.depth = 0 /\ ~last.maximizing
    /\ Lt(last.score, last.alpha)
    /\ ~BoardIsGameOver(Board)
    /\ LegalCells(Board, -last.cfg.color) = {}

\* a depth-0 call on a position that is over
C13_WitnessOver ==
    /\ last.op = "minimax" /\ last.depth = 0 /\ last.maximizing
    /\ BoardIsGameOver(Board)
    /\ ~SameScore(last.score, Frac(0, 1))

(***************************************************************************)
(* C14: coin_parity_heuristic returns 0 exactly when there is no disk of   *)
(* either colour on the board.                                             *)
(***************************************************************************)
C14_CoinParityZeroIffNoDisks ==
    (last.op = "heuristic" /\ last.heuristic = "coin_parity")
        => (last.value.num = 0
                <=> Count(Board, 1) = 0 /\ Count(Board, -1) = 0)

(***************************************************************************)
(* C14, as the code has it: coin_parity_heuristic returns 0 exactly when   *)
(* the two sides have the same number of disks, which includes the board   *)
(* without disks, and a finite value in every case.                        *)
(***************************************************************************)
C14_CoinParityZeroIffEqualCounts ==
    (last.op = "heuristic" /\ last.heuristic = "coin_parity")
        => /\ last.value.den # 0
           /\ last.value.num = 0 <=> Count(Board, 1) = Count(Board, -1)

\* coin parity 0 on a board that holds disks
C14_Witness ==
    /\ last.op = "heuristic" /\ last.heuristic = "coin_parity"
    /\ last.value.num = 0
    /\ Count(Board, 1) = Count(Board, -1)
    /\ Count(Board, 1) > 0

\* coin parity 0 on the board without disks
C14_WitnessEmpty ==
    /\ last.op = "heuristic" /\ last.heuristic = "coin_parity"
    /\ last.value.num = 0
    /\ Board = EmptyBoard

(***************************************************************************)
(* C15: on every board and for every player each of the five heuristics    *)
(* returns a value, no division by zero being made, and each normalised    *)
(* term whose denominator (the sum of the two sides' counts) is zero is    *)
(* exactly 0.                                                              *)
(***************************************************************************)
\* the sums the six normalised terms are divided by
DiskTotal(b) == Count(b, 1) + Count(b, -1)
ActualMovesTotal(b) ==
    Cardinality(find_valid_moves(b, 1)) + Cardinality(find_valid_moves(b, -1))
PotentialMovesTotal(b) ==
    Cardinality(find_empty_neighbors(b, 1))
        + Cardinality(find_empty_neighbors(b, -1))
CornerTotal(b) ==
    2 * Cardinality({x \in corners : At(b, x[1], x[2]) # 0})
        + Cardinality(LegalCells(b, 1) \cap corners)
        + Cardinality(LegalCells(b, -1) \cap corners)
StableTotal(b) == find_stable_disks(b, 1) + find_stable_disks(b, -1)
UnstableTotal(b) ==
    find_unstable_disks(b, 1, LegalCells(b, -1))
        + find_unstable_disks(b, -1, LegalCells(b, 1))

Zero == Frac(0, 1)

C15_HeuristicsNeverDivideByZero ==
    last.op = "heuristic" =>
        /\ last.value.den # 0
        /\ last.heuristic = "hybrid"
            => \A i \in DOMAIN last.value.terms : last.value.terms[i].den # 0
        /\ DiskTotal(Board) = 0
            => coin_parity_heuristic(Mem, Game, last.player) = Zero
        /\ ActualMovesTotal(Board) = 0
            => actual_mobility_heuristic(Board, last.player) = Zero
        /\ PotentialMovesTotal(Board) = 0
            => potential_mobility_heuristic(Board, last.player) = Zero
        /\ CornerTotal(Board) = 0
            => corner_heuristic(Mem, Game, last.player) = Zero
        /\ StableTotal(Board) = 0 => stable_diff(Mem, Game, last.player) = Zero
        /\ UnstableTotal(Board) = 0
            => unstable_diff(Mem, Game, last.player) = Zero
        /\ (last.heuristic = "mobility" /\ ActualMovesTotal(Board) = 0
                /\ PotentialMovesTotal(Board) = 0) => last.value.num = 0
        /\ (last.heuristic = "stability" /\ StableTotal(Board) = 0
                /\ UnstableTotal(Board) = 0) => last.value.num = 0

\* the hybrid heuristic on the board without disks: all six sums are zero
C15_Witness ==
    /\ last.op = "heuristic" /\ last.heuristic = "hybrid"
    /\ Board = EmptyBoard
    /\ DiskTotal(Board) = 0 /\ ActualMovesTotal(Board) = 0
    /\ PotentialMovesTotal(Board) = 0 /\ CornerTotal(Board) = 0
    /\ StableTotal(Board) = 0 /\ UnstableTotal(Board) = 0
    /\ last.value.den # 0

\* the mobility heuristic on a board with empty cells and no move for
\* either side: only the actual-mobility sum is zero
C15_WitnessNoMoves ==
    /\ last.op = "heuristic" /\ last.heuristic = "mobility"
    /\ ActualMovesTotal(Board) = 0 /\ PotentialMovesTotal(Board) # 0
    /\ last.value.den # 0 /\ last.value.num # 0

\* a full board of one colour
C15_WitnessOneColour ==
    /\ last.op = "heuristic" /\ last.heuristic = "stability"
    /\ Board = FullBoard(-1) /\ last.player = 1
    /\ last.value.den # 0 /\ last.value.num < 0

(***************************************************************************)
(* C16: get_winner reports Black when there are strictly more black disks  *)
(* than white ones, White when there are strictly fewer, and a draw        *)
(* exactly when the counts are equal; the value play returns at the end    *)
(* of a game (1, -1, 0) agrees with it.                                    *)
(***************************************************************************)
WinnerByCount(b) ==
    IF Count(b, 1) > Count(b, -1) THEN [text |-> "Black wins!", value |-> 1]
    ELSE IF Count(b, 1) < Count(b, -1)
         THEN [text |-> "White wins!", value |-> -1]
    ELSE [text |-> "It's a draw!", value |-> 0]

C16_WinnerFollowsCounts ==
    /\ last.op \in {"get_winner", "play"}
        => /\ last.text = WinnerByCount(Board).text
           /\ last.text = "It's a draw!" <=> Count(Board, 1) = Count(Board, -1)
    /\ last.op = "play"
        => /\ last.result = WinnerByCount(Board).value
           /\ last.result = 1 <=> last.text = "Black wins!"
           /\ last.result = -1 <=> last.text = "White wins!"
           /\ last.result = 0 <=> last.text = "It's a draw!"

\* a game that ended with as many black disks as white ones
C16_Witness ==
    /\ last.op = "play" /\ last.result = 0 /\ last.text = "It's a draw!"
    /\ Count(Board, 1) = Count(Board, -1) /\ Count(Board, 1) > 0

\* a game of the play loop that White won
C16_WitnessWhite ==
    /\ last.op = "play" /\ last.result = -1
    /\ Board = Last(PositionsFull4).board

\* get_winner on a position that is not over, Black ahead
C16_WitnessBlack ==
    /\ last.op = "get_winner" /\ last.text = "Black wins!"
    /\ ~BoardIsGameOver(Board)

(***************************************************************************)
(* C17: the game Othello.__init__ creates has white disks at (3,3) and     *)
(* (4,4) and black disks at (3,4) and (4,3), and on it valid_moves(1)      *)
(* returns exactly {(2,3), (3,2), (4,5), (5,4)}.                           *)
(***************************************************************************)
C17_OpeningMovesOfBlack ==
    /\ \A x \in Cells :
        At(StartPosition.board, x[1], x[2]) =
            IF x \in {<<3, 3>>, <<4, 4>>} THEN -1
            ELSE IF x \in {<<3, 4>>, <<4, 3>>} THEN 1
            ELSE 0
    /\ (last.op = "valid_moves" /\ last.before = StartPosition.board
            /\ last.player = 1)
        => last.moves = {<<2, 3>>, <<3, 2>>, <<4, 5>>, <<5, 4>>}

C17_Witness ==
    /\ last.op = "valid_moves" /\ last.player = 1
    /\ last.before = StartPosition.board
    /\ Board = StartPosition.board
    /\ Cardinality(last.moves) = 4

(***************************************************************************)
(* C18: on the standard opening apply_move((2,3), 1) returns True, puts a  *)
(* black disk at (2,3), turns the disk at (3,3) from white to black and    *)
(* changes no other cell; the board then holds 4 black disks and 1 white   *)
(* disk.                                                                   *)
(***************************************************************************)
C18_OpeningMoveFlipsOneDisk ==
    (last.op = "apply_move" /\ last.before = StartPosition.board
        /\ last.move = <<2, 3>> /\ last.player = 1)
        => /\ last.result = TRUE
           /\ At(last.before, 3, 3) = -1
           /\ \A x \in Cells :
                At(Board, x[1], x[2]) =
                    IF x \in {<<2, 3>>, <<3, 3>>} THEN 1
                    ELSE At(last.before, x[1], x[2])
           /\ Count(Board, 1) = 4
           /\ Count(Board, -1) = 1

C18_Witness ==
    /\ last.op = "apply_move" /\ last.before = StartPosition.board
    /\ last.move = <<2, 3>> /\ last.player = 1 /\ last.result
    /\ At(Board, 2, 3) = 1 /\ At(Board, 3, 3) = 1

(***************************************************************************)
(* C19: a game of the play loop between two agents, each a MinMaxPlayer    *)
(* or an MCTSAgent whose search makes at least one iteration, always       *)
(* ends: at every turn taken while the game is not over get_move returns   *)
(* a move, the move is applied and the board gains a disk, so no turn      *)
(* leaves the loop asking again for the same position.                     *)
(***************************************************************************)
SearchingAgents ==
    \A c \in Players : players[c].kind \in {"minmax", "mcts"}

C19_EveryTurnAddsADisk ==
    (last.op = "turn" /\ SearchingAgents /\ ~BoardIsGameOver(last.before))
        => /\ last.move # None
           /\ Disks(Board) = Disks(last.before) + 1

(***************************************************************************)
(* C20: selection descends only through nodes that have no untried move    *)
(* left: while the root still has untried moves, the node selection        *)
(* returns is the root.                                                    *)
(***************************************************************************)
RootEntry == players[CurrentPlayer].node_info[ctl.root_key]

C20_RootWithUntriedMovesIsSelected ==
    (/\ ctl.pc = "search" /\ ctl.iterations >= 1
     /\ ctl.root_key \in DOMAIN players[CurrentPlayer].node_info
     /\ ~RootEntry.untried_moves.is_none
     /\ RootEntry.untried_moves.items # {})
        => ctl.selected_key = ctl.root_key

(***************************************************************************)
(* C21: whenever the node selection hands to expansion has a legal move    *)
(* that leads to none of its children, expansion registers the board after *)
(* one such move as a new child of that node, with visits 0 and wins 0,    *)
(* and the move is no longer in the node's untried list; this includes a   *)
(* selected node that an earlier expansion registered as a child.          *)
(***************************************************************************)
SelectedKids == Range(Kids(ctl.expanded.children, ctl.selected_key))

\* the legal moves of the selected node that led to no child of it before
\* this expansion
SelectedUntried ==
    {move \in LegalCells(ctl.selected_key, ctl.selected_player) :
        BoardApplyMove(ctl.selected_key, move, ctl.selected_player).board
            \notin SelectedKids \ {ctl.expanded_key}}

C21_ExpansionAddsAChild ==
    (ctl.pc = "search" /\ ctl.iterations >= 1 /\ SelectedUntried # {})
        => \E move \in SelectedUntried :
            /\ ctl.expanded_key =
                    BoardApplyMove(ctl.selected_key, move,
                                   ctl.selected_player).board
            /\ ctl.expanded_key \in SelectedKids
            /\ ctl.expanded.node_info[ctl.expanded_key].visits = 0
            /\ ctl.expanded.node_info[ctl.expanded_key].wins = 0
            /\ move \notin ctl.expanded.node_info[ctl.selected_key]
                                .untried_moves.items

(***************************************************************************)
(* C22: every get_move call of an MCTSAgent starts its search on a tree    *)
(* without entries: when timed_search enters its loop, children and        *)
(* node_info of the agent hold nothing an earlier call created.            *)
(***************************************************************************)
C22_SearchStartsOnEmptyTree ==
    (ctl.pc = "search" /\ ctl.iterations = 0)
        => /\ players[CurrentPlayer].children = <<>>
           /\ DOMAIN players[CurrentPlayer].node_info = {}

(***************************************************************************)
(* C23: in every state of the loop of Othello.play, started on the         *)
(* standard opening or on a random opening with Black to move, the game is *)
(* over or the side current_player has a legal move.                       *)
(***************************************************************************)
C23_SideToMoveCanMove ==
    BoardIsGameOver(Board) \/ LegalCells(Board, CurrentPlayer) # {}

\* a turn after which the mover moves again, its opponent having no move
C23_Witness ==
    /\ last.op = "turn"
    /\ last.move # None
    /\ CurrentPlayer = last.before_player
    /\ LegalCells(Board, -CurrentPlayer) = {}
    /\ LegalCells(Board, CurrentPlayer) # {}

\* a random opening after its first turn
C23_WitnessRandomOpening ==
    /\ last.op = "turn"
    /\ Disks(last.before) = 4 + random_opening_moves
    /\ Disks(Board) = 5 + random_opening_moves
    /\ CurrentPlayer = -1

(***************************************************************************)
(* C24: backpropagation(node, r), as the search loop calls it on the       *)
(* expanded node, adds 1 to visits on every node of the chain of parents   *)
(* from the expanded node upwards and on no other node, adds r to wins at  *)
(* the expanded node, 1 - r at its parent, r at its grandparent and so on  *)
(* (in half points: r and 2 - r), and leaves the children lists, the       *)
(* untried lists and the set of nodes as they were.                        *)
(***************************************************************************)
\* the nodes whose children list holds key
ParentsOf(agent, key) ==
    {agent.children[i].key :
        i \in {j \in DOMAIN agent.children :
                    key \in Range(agent.children[j].kids)}}

\* the nodes k parent steps above key
RECURSIVE Level(_, _, _)
Level(agent, key, k) ==
    IF k = 0 THEN {key}
    ELSE UNION {ParentsOf(agent, x) : x \in Level(agent, key, k - 1)}

\* the levels of the chain above the expanded node that key lies on
LevelsOf(key) ==
    {k \in 0 .. Cardinality(DOMAIN ctl.expanded.node_info) :
        key \in Level(ctl.expanded, ctl.expanded_key, k)}

RECURSIVE SumResults(_, _)
SumResults(results, flipped) ==
    IF results = <<>> THEN 0
    ELSE (IF flipped THEN 2 - Head(results) ELSE Head(results))
            + SumResults(Tail(results), flipped)

RECURSIVE SumLevels(_, _)
SumLevels(levels, results) ==
    IF levels = {} THEN 0
    ELSE LET k == CHOOSE x \in levels : TRUE
         IN  SumResults(results, k % 2 = 1)
                + SumLevels(levels \ {k}, results)

C25_SimulationEndsGame ==
    last.op = "simulation"
        => /\ BoardIsGameOver(last.final)
           /\ \A x \in Cells :
                At(last.before, x[1], x[2]) # 0
                    => At(last.final, x[1], x[2]) # 0
           /\ Disks(last.final) - Disks(last.before) \in 0 .. 60
           /\ last.result \in {0, 1, 2}
           /\ last.result = 2
                <=> Count(last.final, last.player)
                        > Count(last.final, -last.player)
           /\ last.result = 1
                <=> Count(last.final, last.player)
                        = Count(last.final, -last.player)
           /\ Board = last.before

\* a rollout that placed disks, started by the side that ends with fewer
C25_Witness ==
    /\ last.op = "simulation"
    /\ Disks(last.final) >= Disks(last.before) + 3
    /\ last.result = 0

\* a rollout started by a side without a legal move in a game not over
C25_WitnessPass ==
    /\ last.op = "simulation"
    /\ ~BoardIsGameOver(last.before)
    /\ LegalCells(last.before, last.player) = {}
    /\ last.result = 2

\* a rollout started on a finished game
C25_WitnessOver ==
    /\ last.op = "simulation"
    /\ BoardIsGameOver(last.before)
    /\ last.final = last.before

(***************************************************************************)
(* C26: the unstable-disk count stability_heuristic takes for a player is  *)
(* the number of distinct disks of that player that have, among their 8    *)
(* neighbours, a cell the opponent can legally move into; a disk next to   *)
(* several such cells counts once.                                         *)
(***************************************************************************)
\* the disks of player next to a legal move of the opponent
UnstableDisks(b, player) ==
    {x \in Cells :
        /\ At(b, x[1], x[2]) = player
        /\ \E move \in LegalCells(b, -player) :
            /\ move # x
            /\ move[1] - x[1] \in -1 .. 1
            /\ move[2] - x[2] \in -1 .. 1}

C26_UnstableDisksCountedOnce ==
    (last.op = "heuristic" /\ last.heuristic = "stability")
        => find_unstable_disks(last.before, last.player,
                               valid_moves(Mem, Game, -last.player))
                = Cardinality(UnstableDisks(last.before, last.player))

(***************************************************************************)
(* C27: a minimax call with depth >= 1 on a position that is not over and  *)
(* has no legal move for the acting side returns no move and the score of  *)
(* minimax on the same board with depth - 1, the same alpha and beta and   *)
(* the other value of the maximizing flag; the board is left as it was.    *)
(***************************************************************************)
C27_PassRecursesWithFlippedFlag ==
    (/\ last.op = "minimax" /\ last.depth >= 1
     /\ ~BoardIsGameOver(last.before)
     /\ LegalCells(last.before, ActingSide(last)) = {})
        => /\ last.move = None
           /\ Board = last.before
           /\ last.score
                = minimax(last.cfg, Mem, Game, last.depth - 1, last.alpha,
                          last.beta, ~last.maximizing, Game + 1).score

\* a pass at depth 2 whose score is not the heuristic value of the board:
\* the other side's move below the pass decided it
C27_Witness ==
    /\ last.op = "minimax" /\ last.depth = 2
    /\ ~BoardIsGameOver(last.before)
    /\ LegalCells(last.before, ActingSide(last)) = {}
    /\ last.move = None
    /\ last.score # heuristic_function(last.cfg.heuristic, Mem, Game,
                                       last.cfg.color)

(***************************************************************************)
(* C28: on every board and for either player, utils.find_valid_moves,      *)
(* which scans from the empty cells, returns the set of cells that         *)
(* Othello.valid_moves, which scans from the player's disks, returns.      *)
(***************************************************************************)
C28_FindValidMovesAgrees ==
    /\ \A p \in Players : find_valid_moves(Board, p) = valid_moves(Mem, Game, p)
    /\ last.op = "valid_moves"
            => find_valid_moves(last.before, last.player) = last.moves

\* a call that returned a move bracketing only runs of two or more disks,
\* on a board where some empty cell is not a move
C28_Witness ==
    /\ last.op = "valid_moves"
    /\ \E move \in last.moves :
            \A d \in DirectionSet :
                ~Bracketed(last.before, move, d, last.player, 1)
    /\ \E x \in Cells :
            At(last.before, x[1], x[2]) = 0 /\ x \notin last.moves

(***************************************************************************)
(* C29: whenever selection can evaluate UCB1, that is on every node of an  *)
(* agent's tree that has children when an iteration starts, the node and   *)
(* each of its children have been visited at least once, so wins / visits  *)
(* and log(parent visits) / visits are defined.                            *)
(***************************************************************************)
\* the (parent, child) pairs of the agent's tree: selection evaluates UCB1
\* of child under parent when it reaches parent (lines 66-75)
Ucb1Pairs(agent) ==
    UNION { {<<agent.children[i].key, kid>>
                : kid \in Range(agent.children[i].kids)}
            : i \in DOMAIN agent.children }

C29_Ucb1IsDefined ==
    \A c \in Players :
        players[c].kind = "mcts"
            => \A pair \in Ucb1Pairs(players[c]) :
                /\ pair[1] \in DOMAIN players[c].node_info
                /\ pair[2] \in DOMAIN players[c].node_info
                /\ players[c].node_info[pair[1]].visits >= 1
                /\ players[c].node_info[pair[2]].visits >= 1

\* an iteration in which selection descended from the root to its child,
\* on a tree kept from an earlier get_move call
C29_Witness ==
    /\ ctl.pc = "search" /\ ctl.iterations >= 1
    /\ ~last.fresh
    /\ <<ctl.root_key, ctl.selected_key>> \in Ucb1Pairs(players[CurrentPlayer])
    /\ players[CurrentPlayer].node_info[ctl.root_key].visits >= 2

(***************************************************************************)
(* C30: on an agent whose tree was empty when its search began, after each *)
(* completed iteration every node has 0 <= wins <= visits (wins in half    *)
(* points: 0 <= wins <= 2 * visits) and the root has been visited          *)
(* iterations * nb_rollouts times.                                         *)
(***************************************************************************)
C30_WinsWithinVisits ==
    (ctl.pc = "search" /\ ctl.iterations >= 1 /\ last.fresh)
        => /\ \A key \in DOMAIN players[CurrentPlayer].node_info :
                /\ 0 <= players[CurrentPlayer].node_info[key].wins
                /\ players[CurrentPlayer].node_info[key].wins
                        <= 2 * players[CurrentPlayer].node_info[key].visits
           /\ ctl.root_key \in DOMAIN players[CurrentPlayer].node_info
           /\ players[CurrentPlayer].node_info[ctl.root_key].visits
                    = ctl.iterations * nb_rollouts

\* two iterations on a fresh agent, the root having won both rollouts
C30_Witness ==
    /\ ctl.pc = "search" /\ ctl.iterations = 2 /\ last.fresh
    /\ players[CurrentPlayer].node_info[ctl.root_key].wins = 4
    /\ players[CurrentPlayer].node_info[ctl.root_key].visits = 2

=============================================================================
